---------------------------- MODULE Spec2Model ----------------------------
(***************************************************************************)
(* Verification model of the ISO8583 bank-communication service:           *)
(*   - StanGenerator           (app/service/stan_generator.rs)             *)
(*   - Iso8583TransactionService::process_transaction                      *)
(*                             (app/service/iso8583_transaction_service.rs)*)
(*   - ReversalService         (app/service/reversal_service.rs)           *)
(*   - TransactionState, the iso8583_payment table                         *)
(*                             (models/transaction.rs, repository/...)     *)
(*                                                                         *)
(* Strings that the program formats (the STAN) are sequences of decimal    *)
(* digits; strings that the program only compares are TLA+ strings.        *)
(* TLC integers are 32-bit signed; the AtomicU32 counter never exceeds     *)
(* MaxStan + (number of tasks), so no reduction modulo 2^32 is needed.     *)
(***************************************************************************)
EXTENDS Integers, Sequences, FiniteSets, TLC

VARIABLES
    \* ---- StanGenerator (shared) ----
    current,      \* StanGenerator.current : AtomicU32
    last_date,    \* StanGenerator.last_date : RwLock<String> (a day number)
    lock,         \* holder of last_date's write lock, NoTask when free
    today,        \* the wall clock's calendar day, Local::now()
    \* ---- one caller task per element of Tasks ----
    pc,           \* position of each task inside next() / reset()
    cur_date,     \* next(): the local `current_date`
    next_val,     \* next(): the local `next_val`
    rolled,       \* next(): did this call take the date-reset branch
    ret,          \* the String last returned by next() to each task
    \* ---- observation of the generator (history variables) ----
    hist,         \* calls in the order of their fetch_add / reset
    calls,        \* number of next() calls since construction
    pristine,     \* no reset() and no date change since construction
    reachedMax,   \* some fetch_add has produced a value >= MaxStan
    \* ---- the iso8583_payment table and the wall clock's time of day ----
    db,           \* the set of rows of iso8583_payment
    clock,        \* seconds since midnight, Local::now()
    \* ---- process_transaction, one run at a time per task ----
    tpc,          \* position of each task inside process_transaction
    req,          \* the CardRequest being processed
    stan,         \* the local `stan` (step 1)
    msg,          \* the local `request_msg` (step 2)
    dbtx,         \* the local `db_transaction` (step 3)
    resp,         \* the local `response_msg` (step 4)
    txstate,      \* the local `state` (step 5)
    result,       \* what process_transaction returned
    \* ---- observation of process_transaction (history variables) ----
    sentMsg,      \* the message handed to the responder
    log,          \* the steps the run has performed, in order
    writes,       \* the tr_type values the run has written, in order
    started,      \* number of process_transaction runs begun
    \* ---- ReversalService, one call at a time ----
    revOut,       \* the last reversal call: its arguments, what it found in
                  \* the table, and the Result it returned
    revCalls,     \* number of ReversalService calls made
    \* ---- TcpServer and the supervisor ----
    mode,         \* TcpServer.mode : ConnectionMode
    listener,     \* the accept loop of TcpServer::start
    sup,          \* the supervisor: run() and main() racing the signal
    \* ---- one spawned task per accepted connection ----
    cpc,          \* position of the task in the spawned block and in
                  \* handle_client_logic
    cin,          \* what the last completed read_data returned
    cbuf,         \* the payload in `buffer[..n]`
    cresp,        \* the local `response_bytes`
    cres,         \* how the task ended
    clog,         \* the reads and writes on the socket, in order (history)
    \* ---- one Bitmap value ----
    bits,         \* Bitmap.bits : [bool; 128], indexed 1..128 here
    bmLast,       \* the last call on the bitmap and bit 1 before it (history)
    bmOps,        \* number of calls made on the bitmap
    bmOrigin,     \* the constructor that made the bitmap (history)
    bmSecAdded,   \* a data element in 65..128 was added to it (history)
    \* ---- one Iso8583Message value ----
    imsg,         \* the message: mti, fields, bitmap
    imsgLast,     \* the last call on the message (history)
    \* ---- Iso8583Parser, one call at a time ----
    codec,        \* the last call: its arguments and what it returned
    \* ---- TlvParser, one call at a time ----
    tlv,          \* the last call: its argument and what it returned
    \* ---- the responder and the message builder, one call at a time ----
    svc           \* the last call: its arguments and what it returned

stanVars == <<current, last_date, lock, today, pc, cur_date, next_val,
              rolled, ret, hist, calls, pristine, reachedMax>>

txnVars == <<db, clock, tpc, req, stan, msg, dbtx, resp, txstate, result,
             sentMsg, log, writes, started>>

revVars == <<revOut, revCalls>>

connVars == <<mode, listener, sup, cpc, cin, cbuf, cresp, cres, clog>>

\* the components the generator, the orchestrator and the reversal engine
\* never touch
bitmapVars == <<bits, bmLast, bmOps, bmOrigin, bmSecAdded>>

msgVars == <<imsg, imsgLast>>

codecVars == <<codec>>

tlvVars == <<tlv>>

svcVars == <<svc>>

otherVars == <<connVars, bitmapVars, msgVars, codecVars, tlvVars, svcVars>>

vars == <<stanVars, txnVars, revVars, otherVars>>

-----------------------------------------------------------------------------
(* Bounds of the model *)

\* number of calendar days the clock can show
MaxDay == 2
\* number of next()/reset() calls begun by concurrent callers
MaxHist == 3
\* number of next()/reset() calls of the sequential caller
MaxSeqHist == 4
\* seconds the time-of-day clock can advance
MaxClock == 1
\* number of process_transaction runs in one behaviour
MaxTx == 2
\* number of ReversalService calls in one behaviour
MaxRev == 2

\* payloads a terminal sends on one connection
MaxReads == 2

\* set_bit and clear_bit calls on one bitmap
MaxBitOps == 4

(* Program constants *)

\* Bitmap.bits : [bool; 128]
BitmapBits == 128
\* the bits of the primary bitmap
PrimaryBits == 64

\* stan_generator.rs:43  `if next_val > 999999`
MaxStan == 999999
\* stan_generator.rs:50  `format!("{:06}", stan)`
StanWidth == 6

Tasks == {1, 2}
NoTask == 0
Days == 1..MaxDay

\* Counter values a generator has after that many sequential calls on one
\* day: the fresh generator, the decimal carries, and the values next to the
\* wrap point.
StartCounts == {0, 8, 98, 99998, 999997, 999998, 999999}

\* the start values of the concurrent specification: fresh, and at the wrap
\* point
ConcStartCounts == {0, 999999}

-----------------------------------------------------------------------------
(* Decimal formatting: format!("{:06}", n) and its inverse *)

RECURSIVE Digits(_)
Digits(n) == IF n < 10 THEN <<n>> ELSE Append(Digits(n \div 10), n % 10)

RECURSIVE ZeroPad(_, _)
ZeroPad(s, w) == IF Len(s) >= w THEN s ELSE ZeroPad(<<0>> \o s, w)

\* a faulty variant of Fmt6: pads to one digit less
Fmt6_Short(n) == ZeroPad(Digits(n), StanWidth - 1)

\* format!("{:06}", stan): at least 6 digits, zero-padded on the left
Fmt6(n) == ZeroPad(Digits(n), StanWidth)

RECURSIVE DigitsVal(_)
DigitsVal(s) == IF Len(s) = 0 THEN 0
                ELSE 10 * DigitsVal(SubSeq(s, 1, Len(s) - 1)) + s[Len(s)]

IsDecimal(s) == \A i \in 1..Len(s) : s[i] \in 0..9

-----------------------------------------------------------------------------
(* StanGenerator: the pure parts of next() *)

\* a faulty variant of DateCheck: stores the new date but keeps the counter
DateCheck_KeepCounter(cur, last, d) ==
    [current |-> cur, last_date |-> d, rolled |-> last # d]

\* next(), lines 31-36: under the write lock, compare and reset
DateCheck(cur, last, d) ==
    IF last # d
    THEN [current |-> 0, last_date |-> d, rolled |-> TRUE]
    ELSE [current |-> cur, last_date |-> last, rolled |-> FALSE]

\* a faulty variant of FetchAdd: returns the value before the increment
FetchAdd_Old(cur) == cur

\* next(), line 40: fetch_add(1) + 1, the value of `next_val`
FetchAdd(cur) == cur + 1

\* a faulty variant of WrapStan: wraps to 0
WrapStan_Zero(nv) == IF nv > MaxStan THEN 0 ELSE nv

\* next(), lines 43-48: the value of `stan`
WrapStan(nv) == IF nv > MaxStan THEN 1 ELSE nv

\* next(), line 44: the store(1) of the wrap branch
WrapStore(nv, cur) == IF nv > MaxStan THEN 1 ELSE cur

\* the next() entry of the history
NextEvent(d, nv, r) ==
    [op |-> "next", day |-> d, stan |-> Fmt6(WrapStan(nv)), rolled |-> r]

\* the reset() entry of the history
ResetEvent(d) ==
    [op |-> "reset", day |-> d, stan |-> <<>>, rolled |-> FALSE]

-----------------------------------------------------------------------------
(* Option<T>: None is the empty sequence, Some(x) the one-element sequence *)

None == <<>>
Some(x) == <<x>>

\* SQL COALESCE($n, column)
Coalesce(opt, old) == IF opt # None THEN opt ELSE old

-----------------------------------------------------------------------------
(* Local::now() and its formats.  The calendar is January 2026: day d of   *)
(* the model is 2026-01-d, the clock counts seconds since midnight.        *)

Pad2(n) == ZeroPad(Digits(n), 2)

\* now.format("%H%M%S")
FmtHMS(t) == Pad2(t \div 3600) \o Pad2((t \div 60) % 60) \o Pad2(t % 60)

\* now.format("%m%d")
FmtMD(d) == <<0, 1>> \o Pad2(d)

\* now.format("%Y%m%d")
FmtYMD(d) == <<2, 0, 2, 6>> \o FmtMD(d)

\* now.format("%m%d%H%M%S")
FmtMDHMS(d, t) == FmtMD(d) \o FmtHMS(t)

\* now.format("%Y%m%d%H%M%S")
FmtYMDHMS(d, t) == FmtYMD(d) \o FmtHMS(t)

-----------------------------------------------------------------------------
(* TransactionState and ResponseCode *)

TransactionStates ==
    {"Created", "Sent", "Approved", "Declined", "Timeout", "Reversed",
     "Voided", "Failed"}

\* TransactionState::as_str
AsStr(st) ==
    CASE st = "Created"  -> "CREATED"
      [] st = "Sent"     -> "SENT"
      [] st = "Approved" -> "APPROVED"
      [] st = "Declined" -> "DECLINED"
      [] st = "Timeout"  -> "TIMEOUT"
      [] st = "Reversed" -> "REVERSED"
      [] st = "Voided"   -> "VOIDED"
      [] st = "Failed"   -> "FAILED"

\* str::to_uppercase on the strings the table can hold
ToUppercase(s) ==
    CASE s = "approved" -> "APPROVED"
      [] s = "Approved" -> "APPROVED"
      [] s = "reversed" -> "REVERSED"
      [] s = "Reversed" -> "REVERSED"
      [] s = "sent"     -> "SENT"
      [] OTHER          -> s

\* TransactionState::from_str : Option<TransactionState>
StateFromStr(s) ==
    LET u == ToUppercase(s) IN
    IF \E st \in TransactionStates : AsStr(st) = u
    THEN Some(CHOOSE st \in TransactionStates : AsStr(st) = u)
    ELSE None

\* ResponseCode::as_str of every variant
ResponseCodes ==
    {"00", "05", "12", "13", "14", "30", "51", "54", "55", "57", "58", "61",
     "91", "96"}

\* ResponseCode::from_str : Option<ResponseCode>
ResponseCodeFromStr(s) == IF s \in ResponseCodes THEN Some(s) ELSE None

\* ResponseCode::to_transaction_state
ToTransactionState(code) == IF code = "00" THEN "Approved" ELSE "Declined"

\* MockBankResponseHandler::determine_response_code: Approved, or one of
\* the error codes (two of the five are drawn here)
MockCodes == {"00", "05", "51"}

-----------------------------------------------------------------------------
(* Iso8583Message: mti + a map from data-element number to value *)

NewMessage(mti) == [mti |-> mti, fields |-> <<>>]

\* Iso8583Message::set_field
SetField(m, de, v) ==
    IF de >= 1 /\ de <= 128
    THEN [m EXCEPT !.fields = (de :> v) @@ @]
    ELSE m

\* Iso8583Message::get_field : Option<&String>
GetField(m, de) == IF de \in DOMAIN m.fields THEN Some(m.fields[de]) ELSE None

\* Iso8583Message::get_field_numbers
GetFieldNumbers(m) == DOMAIN m.fields

\* Iso8583Message::get_response_mti : Option<String>
GetResponseMti(m) ==
    CASE m.mti = "0100" -> Some("0110")
      [] m.mti = "0200" -> Some("0210")
      [] m.mti = "0400" -> Some("0410")
      [] m.mti = "0800" -> Some("0810")
      [] OTHER          -> None

RECURSIVE SetFields(_, _, _)
\* set_field for every data element of `des` that `src` carries
SetFields(m, src, des) ==
    IF des = {} THEN m
    ELSE LET de == CHOOSE x \in des : TRUE
             m1 == IF GetField(src, de) # None
                   THEN SetField(m, de, GetField(src, de)[1]) ELSE m
         IN  SetFields(m1, src, des \ {de})

-----------------------------------------------------------------------------
(* Iso8583Transaction, a row of iso8583_payment (the columns the modelled   *)
(* operations read or write)                                               *)

\* Iso8583Transaction::new
NewTransaction(st, mti, d, t) ==
    [tr_dt |-> FmtYMD(d), tr_tm |-> FmtHMS(t), tr_uniq_no |-> st,
     trm_id |-> None, msg_typ |-> Some(mti),
     field_002 |-> None, field_003 |-> None, field_004 |-> None,
     field_007 |-> None, field_011 |-> Some(st),
     field_012 |-> Some(FmtHMS(t)), field_013 |-> Some(FmtMD(d)),
     field_022 |-> None, field_025 |-> None, field_037 |-> None,
     field_038 |-> None, field_039 |-> None, field_041 |-> None,
     field_042 |-> None, field_049 |-> None,
     tr_type |-> Some(AsStr("Created")), updt_dtm |-> None]

\* Iso8583Transaction::set_field
RowSetField(row, de, value) ==
    CASE de = 2  -> [row EXCEPT !.field_002 = value]
      [] de = 3  -> [row EXCEPT !.field_003 = value]
      [] de = 4  -> [row EXCEPT !.field_004 = value]
      [] de = 7  -> [row EXCEPT !.field_007 = value]
      [] de = 11 -> [row EXCEPT !.field_011 = value]
      [] de = 12 -> [row EXCEPT !.field_012 = value]
      [] de = 13 -> [row EXCEPT !.field_013 = value]
      [] de = 22 -> [row EXCEPT !.field_022 = value]
      [] de = 25 -> [row EXCEPT !.field_025 = value]
      [] de = 37 -> [row EXCEPT !.field_037 = value]
      [] de = 38 -> [row EXCEPT !.field_038 = value]
      [] de = 39 -> [row EXCEPT !.field_039 = value]
      [] de = 41 -> [row EXCEPT !.field_041 = value, !.trm_id = value]
      [] de = 42 -> [row EXCEPT !.field_042 = value]
      [] de = 49 -> [row EXCEPT !.field_049 = value]
      [] OTHER   -> row

KeyOf(row) == <<row.tr_dt, row.tr_tm, row.tr_uniq_no>>

\* the table is keyed by (tr_dt, tr_tm, tr_uniq_no): a second row with the
\* key of an existing one is refused
KeyFree(table, row) == \A r \in table : KeyOf(r) # KeyOf(row)

\* repository insert: INSERT INTO iso8583_payment (...) VALUES (...)
DbInsert(table, row) == table \cup {row}

\* a faulty variant of DbUpdateResponse: tr_type is left out of the SET list
DbUpdateResponse_KeepState(table, dt, tm, uniq, code, auth, rrn, st, now) ==
    { IF r.tr_dt = dt /\ r.tr_tm = tm /\ r.tr_uniq_no = uniq
      THEN [r EXCEPT !.field_037 = Coalesce(rrn, @),
                     !.field_038 = Coalesce(auth, @),
                     !.field_039 = Coalesce(code, @),
                     !.updt_dtm = Some(now)]
      ELSE r : r \in table }

\* a faulty variant of DbUpdateResponse: tr_tm is left out of the WHERE clause
DbUpdateResponse_AnyTime(table, dt, tm, uniq, code, auth, rrn, st, now) ==
    { IF r.tr_dt = dt /\ r.tr_uniq_no = uniq
      THEN [r EXCEPT !.field_037 = Coalesce(rrn, @),
                     !.field_038 = Coalesce(auth, @),
                     !.field_039 = Coalesce(code, @),
                     !.tr_type = Some(AsStr(st)),
                     !.updt_dtm = Some(now)]
      ELSE r : r \in table }

\* a faulty variant of DbUpdateResponse: the three response columns are
\* assigned the arguments as they are, NULL included
DbUpdateResponse_NoCoalesce(table, dt, tm, uniq, code, auth, rrn, st, now) ==
    { IF r.tr_dt = dt /\ r.tr_tm = tm /\ r.tr_uniq_no = uniq
      THEN [r EXCEPT !.field_037 = rrn,
                     !.field_038 = auth,
                     !.field_039 = code,
                     !.tr_type = Some(AsStr(st)),
                     !.updt_dtm = Some(now)]
      ELSE r : r \in table }

\* repository update_response: UPDATE ... SET ... WHERE key; no matching
\* row is not an error
DbUpdateResponse(table, dt, tm, uniq, code, auth, rrn, st, now) ==
    { IF r.tr_dt = dt /\ r.tr_tm = tm /\ r.tr_uniq_no = uniq
      THEN [r EXCEPT !.field_037 = Coalesce(rrn, @),
                     !.field_038 = Coalesce(auth, @),
                     !.field_039 = Coalesce(code, @),
                     !.tr_type = Some(AsStr(st)),
                     !.updt_dtm = Some(now)]
      ELSE r : r \in table }

\* the rows a key selects
RowsAt(table, key) == {r \in table : KeyOf(r) = key}

\* repository find_by_stan_today: WHERE tr_dt = today AND tr_uniq_no = stan
\* ORDER BY tr_tm DESC LIMIT 1
FindByStanToday(table, st, d) ==
    LET hits == {r \in table : r.tr_dt = FmtYMD(d) /\ r.tr_uniq_no = st} IN
    IF hits = {} THEN None
    ELSE Some(CHOOSE r \in hits :
                 \A q \in hits : DigitsVal(q.tr_tm) <= DigitsVal(r.tr_tm))

-----------------------------------------------------------------------------
(* CardRequest: the requests of the model carry no merchantId and no       *)
(* cardData, like the end-to-end example                                   *)

Requests ==
    {[msg_type |-> "SALE", trm_id |-> "T001", transaction_id |-> <<1>>,
      amount |-> 100],
     [msg_type |-> "REFUND", trm_id |-> "T001", transaction_id |-> <<2>>,
      amount |-> 100]}

NoReq == [msg_type |-> "", trm_id |-> "", transaction_id |-> <<>>, amount |-> 0]
NoMsg == NewMessage("")
NoRow == NewTransaction(<<>>, "", 0, 0)
NoResult == [ok |-> FALSE, returned |-> FALSE, json |-> <<>>]

\* no process_transaction is running
NoRuns ==
    /\ clock = 0
    /\ tpc = [t \in Tasks |-> "idle"]
    /\ req = [t \in Tasks |-> NoReq]
    /\ stan = [t \in Tasks |-> <<>>]
    /\ msg = [t \in Tasks |-> NoMsg]
    /\ dbtx = [t \in Tasks |-> NoRow]
    /\ resp = [t \in Tasks |-> NoMsg]
    /\ txstate = [t \in Tasks |-> ""]
    /\ result = [t \in Tasks |-> NoResult]
    /\ sentMsg = [t \in Tasks |-> NoMsg]
    /\ log = [t \in Tasks |-> <<>>]
    /\ writes = [t \in Tasks |-> <<>>]
    /\ started = 0

\* an empty table and no run
TxnIdle == db = {} /\ NoRuns

NoRevOut == [op |-> "none", stan |-> <<>>, found |-> None, day |-> 0,
             kind |-> "none", err |-> "", msg |-> NoMsg]

\* no ReversalService call has been made
RevIdle ==
    /\ revOut = NoRevOut
    /\ revCalls = 0

\* the connections the listener accepts, one spawned task each
Conns == {1, 2}

NoPayload == [utf8 |-> TRUE, json |-> TRUE, card |-> "none", txid |-> 0]

NoBytes == [status |-> "", transactionId |-> 0]

NoEnd == [kind |-> "running", err |-> ""]

\* the server has not been started
ConnIdle ==
    /\ mode = "Plain"
    /\ listener = "unbound"
    /\ sup = "running"
    /\ cpc = [c \in Conns |-> "none"]
    /\ cin = [c \in Conns |-> "none"]
    /\ cbuf = [c \in Conns |-> NoPayload]
    /\ cresp = [c \in Conns |-> NoBytes]
    /\ cres = [c \in Conns |-> NoEnd]
    /\ clog = [c \in Conns |-> <<>>]

\* Bitmap::new
NewBitmap == [de \in 1..BitmapBits |-> FALSE]

NoBitOp == [op |-> "none", de |-> 0, bit1 |-> FALSE]

BitmapIdle ==
    /\ bits = NewBitmap
    /\ bmLast = NoBitOp
    /\ bmOps = 0
    /\ bmOrigin = "new"
    /\ bmSecAdded = FALSE

\* Iso8583Message::new, with the bitmap field the orchestrator never reads
NewIsoMessage(mti) == [mti |-> mti, fields |-> <<>>, bitmap |-> <<>>]

\* no message has been made
MsgIdle ==
    /\ imsg = NewIsoMessage(<<>>)
    /\ imsgLast = [op |-> "none", de |-> 0]

\* no Iso8583Parser call has been made
CodecIdle == codec = [op |-> "none"]

\* no TlvParser call has been made
TlvIdle == tlv = [op |-> "none"]

\* the codecs are not in use
\* no call of the responder or the builder has been made
SvcIdle == svc = [op |-> "none"]

CodecsIdle == MsgIdle /\ CodecIdle /\ TlvIdle /\ SvcIdle

OtherIdle == ConnIdle /\ BitmapIdle /\ CodecsIdle

-----------------------------------------------------------------------------
(* StanGenerator::new, then `c0` sequential calls *)

GenInit(c0) ==
    /\ current = c0
    /\ calls = current
    /\ today = 1
    /\ last_date = today
    /\ lock = NoTask
    /\ pc = [t \in Tasks |-> "idle"]
    /\ cur_date = [t \in Tasks |-> 0]
    /\ next_val = [t \in Tasks |-> 0]
    /\ rolled = [t \in Tasks |-> FALSE]
    /\ ret = [t \in Tasks |-> <<>>]
    /\ hist = <<>>
    /\ pristine = TRUE
    /\ reachedMax = (current >= MaxStan)

StanInit == OtherIdle /\ (\E c0 \in ConcStartCounts : GenInit(c0)) /\ TxnIdle /\ RevIdle

\* the wall clock passes midnight
Tick ==
    /\ today < MaxDay
    /\ today' = today + 1
    /\ pristine' = FALSE
    /\ UNCHANGED <<current, last_date, lock, pc, cur_date, next_val, rolled,
                   ret, hist, calls, reachedMax>>
    /\ UNCHANGED <<txnVars, revVars, otherVars>>

-----------------------------------------------------------------------------
(* Concurrent callers of one shared generator, one step per atomic access *)

\* next(), line 27: let current_date = get_current_date()
NextReadDate(t) ==
    /\ pc[t] = "idle"
    /\ Len(hist) < MaxHist
    /\ cur_date' = [cur_date EXCEPT ![t] = today]
    /\ pc' = [pc EXCEPT ![t] = "check"]
    /\ UNCHANGED <<current, last_date, lock, today, next_val, rolled, ret,
                   hist, calls, pristine, reachedMax>>
    /\ UNCHANGED <<txnVars, revVars, otherVars>>

\* next(), lines 30-36: write().await, then compare and reset
NextCheckDate(t) ==
    /\ pc[t] = "check"
    /\ lock = NoTask
    /\ LET r == DateCheck(current, last_date, cur_date[t]) IN
          /\ current' = r.current
          /\ last_date' = r.last_date
          /\ rolled' = [rolled EXCEPT ![t] = r.rolled]
    /\ lock' = t
    /\ pc' = [pc EXCEPT ![t] = "locked"]
    /\ UNCHANGED <<today, cur_date, next_val, ret, hist, calls, pristine,
                   reachedMax>>
    /\ UNCHANGED <<txnVars, revVars, otherVars>>

\* next(), line 37: drop(last_date)
NextDropLock(t) ==
    /\ pc[t] = "locked"
    /\ lock = t
    /\ lock' = NoTask
    /\ pc' = [pc EXCEPT ![t] = "fetch"]
    /\ UNCHANGED <<current, last_date, today, cur_date, next_val, rolled,
                   ret, hist, calls, pristine, reachedMax>>
    /\ UNCHANGED <<txnVars, revVars, otherVars>>

\* next(), line 40: self.current.fetch_add(1) + 1
NextFetchAdd(t) ==
    /\ pc[t] = "fetch"
    /\ next_val' = [next_val EXCEPT ![t] = FetchAdd(current)]
    /\ current' = current + 1
    /\ hist' = Append(hist, NextEvent(cur_date[t], next_val'[t], rolled[t]))
    /\ calls' = calls + 1
    /\ reachedMax' = (reachedMax \/ next_val'[t] >= MaxStan)
    /\ pc' = [pc EXCEPT ![t] = "wrap"]
    /\ UNCHANGED <<last_date, lock, today, cur_date, rolled, ret, pristine>>
    /\ UNCHANGED <<txnVars, revVars, otherVars>>

\* next(), lines 43-50: the wrap branch's store(1), format and return
NextReturn(t) ==
    /\ pc[t] = "wrap"
    /\ current' = WrapStore(next_val[t], current)
    /\ ret' = [ret EXCEPT ![t] = Fmt6(WrapStan(next_val[t]))]
    /\ pc' = [pc EXCEPT ![t] = "idle"]
    /\ cur_date' = [cur_date EXCEPT ![t] = 0]
    /\ next_val' = [next_val EXCEPT ![t] = 0]
    /\ rolled' = [rolled EXCEPT ![t] = FALSE]
    /\ UNCHANGED <<last_date, lock, today, hist, calls, pristine, reachedMax>>
    /\ UNCHANGED <<txnVars, revVars, otherVars>>

\* reset(), line 65: self.current.store(0)
ResetStore(t) ==
    /\ pc[t] = "idle"
    /\ Len(hist) < MaxHist
    /\ current' = 0
    /\ hist' = Append(hist, ResetEvent(today))
    /\ pristine' = FALSE
    /\ pc' = [pc EXCEPT ![t] = "r_lock"]
    /\ UNCHANGED <<last_date, lock, today, cur_date, next_val, rolled, ret,
                   calls, reachedMax>>
    /\ UNCHANGED <<txnVars, revVars, otherVars>>

\* reset(), lines 66-67: write().await; *last_date = get_current_date()
ResetSetDate(t) ==
    /\ pc[t] = "r_lock"
    /\ lock = NoTask
    /\ lock' = t
    /\ last_date' = today
    /\ pc' = [pc EXCEPT ![t] = "r_locked"]
    /\ UNCHANGED <<current, today, cur_date, next_val, rolled, ret, hist,
                   calls, pristine, reachedMax>>
    /\ UNCHANGED <<txnVars, revVars, otherVars>>

\* reset(), line 69: the guard is dropped at the end of the function
ResetDropLock(t) ==
    /\ pc[t] = "r_locked"
    /\ lock = t
    /\ lock' = NoTask
    /\ pc' = [pc EXCEPT ![t] = "idle"]
    /\ UNCHANGED <<current, last_date, today, cur_date, next_val, rolled,
                   ret, hist, calls, pristine, reachedMax>>
    /\ UNCHANGED <<txnVars, revVars, otherVars>>

StanNext ==
    \/ Tick
    \/ \E t \in Tasks : NextReadDate(t)
    \/ \E t \in Tasks : NextCheckDate(t)
    \/ \E t \in Tasks : NextDropLock(t)
    \/ \E t \in Tasks : NextFetchAdd(t)
    \/ \E t \in Tasks : NextReturn(t)
    \/ \E t \in Tasks : ResetStore(t)
    \/ \E t \in Tasks : ResetSetDate(t)
    \/ \E t \in Tasks : ResetDropLock(t)

\* any interleaving of next(), reset() and date changes
SpecStan == StanInit /\ [][StanNext]_vars

-----------------------------------------------------------------------------
(* One caller, each call run to completion before the next one starts *)

SeqInit == OtherIdle /\ (\E c0 \in StartCounts : GenInit(c0)) /\ TxnIdle /\ RevIdle

\* next(), lines 26-51, uninterrupted: the generator's new state and the
\* returned string
NextAtomic(cur, last, d) ==
    LET r  == DateCheck(cur, last, d)
        nv == FetchAdd(r.current)
    IN  [current |-> WrapStore(nv, r.current + 1), last_date |-> r.last_date,
         next_val |-> nv, rolled |-> r.rolled, stan |-> Fmt6(WrapStan(nv))]

SeqNext ==
    /\ Len(hist) < MaxSeqHist
    /\ LET g == NextAtomic(current, last_date, today) IN
           /\ current' = g.current
           /\ last_date' = g.last_date
           /\ ret' = [ret EXCEPT ![1] = g.stan]
           /\ hist' = Append(hist, NextEvent(today, g.next_val, g.rolled))
           /\ reachedMax' = (reachedMax \/ g.next_val >= MaxStan)
    /\ calls' = calls + 1
    /\ UNCHANGED <<lock, today, pc, cur_date, next_val, rolled, pristine>>
    /\ UNCHANGED <<txnVars, revVars, otherVars>>

\* reset(), lines 64-69, uninterrupted
SeqReset ==
    /\ Len(hist) < MaxSeqHist
    /\ current' = 0
    /\ last_date' = today
    /\ hist' = Append(hist, ResetEvent(today))
    /\ pristine' = FALSE
    /\ UNCHANGED <<lock, today, pc, cur_date, next_val, rolled, ret, calls,
                   reachedMax>>
    /\ UNCHANGED <<txnVars, revVars, otherVars>>

SeqStep ==
    \/ Tick
    \/ SeqNext
    \/ SeqReset

\* sequential use of the generator
SpecSeq == SeqInit /\ [][SeqStep]_vars

-----------------------------------------------------------------------------
(* Claims about the STAN generator *)

IsNextAt(i) == i \in 1..Len(hist) /\ hist[i].op = "next"
Stan(n) == Fmt6(n)

\* C1 (SpecStan): concurrent next() calls of one calendar day, with no
\* reset() and before the counter reaches 999999, never return the same
\* STAN, and their values increase in the order they are handed out.
C1_SameDayStrictlyIncreasing ==
    (~reachedMax /\ \A i \in 1..Len(hist) : hist[i].op = "next") =>
        \A i, j \in 1..Len(hist) :
            (i < j /\ hist[i].day = hist[j].day) =>
                DigitsVal(hist[i].stan) < DigitsVal(hist[j].stan)

\* C2 (SpecSeq): on a generator with no date change and no reset, the k-th
\* sequential next() returns k as 6 zero-padded decimal digits, k <= 999999.
C2_KthCallReturnsK ==
    (pristine /\ Len(hist) > 0 /\ calls <= MaxStan) =>
        /\ ret[1] = Fmt6(calls)
        /\ hist[Len(hist)].stan = ret[1]
        /\ Len(ret[1]) = StanWidth

C2_Witness ==
    /\ pristine
    /\ Len(hist) = 3
    /\ calls = 3
    /\ ret[1] = <<0, 0, 0, 0, 0, 3>>
    /\ hist[1].stan = <<0, 0, 0, 0, 0, 1>>
    /\ hist[2].stan = <<0, 0, 0, 0, 0, 2>>

\* C3 (SpecSeq): after "999999" the next sequential call returns "000001"
\* (not "000000", not 7 digits), and the call after that, on the same day
\* and with no reset between, returns "000002".
C3_WrapToOne ==
    \A i \in 1..Len(hist) :
        (IsNextAt(i) /\ hist[i].stan = Stan(MaxStan) /\ IsNextAt(i + 1)) =>
            /\ hist[i + 1].stan = <<0, 0, 0, 0, 0, 1>>
            /\ (IsNextAt(i + 2) /\ ~hist[i + 2].rolled) =>
                    hist[i + 2].stan = <<0, 0, 0, 0, 0, 2>>

C3_Witness ==
    \E i \in 1..Len(hist) :
        /\ IsNextAt(i) /\ IsNextAt(i + 1) /\ IsNextAt(i + 2)
        /\ hist[i].stan = <<9, 9, 9, 9, 9, 9>>
        /\ ~hist[i + 1].rolled /\ ~hist[i + 2].rolled
        /\ hist[i + 2].stan = <<0, 0, 0, 0, 0, 2>>
        /\ ret[1] = hist[Len(hist)].stan

\* C4 (SpecSeq): the first next() after a reset, be it the date reset
\* inside next() or an explicit reset(), returns "000001" whatever was
\* issued before.
C4_FirstAfterResetIsOne ==
    \A i \in 1..Len(hist) :
        (IsNextAt(i) /\ (hist[i].rolled \/ (i > 1 /\ hist[i - 1].op = "reset"))) =>
            hist[i].stan = <<0, 0, 0, 0, 0, 1>>

C4_Witness ==
    /\ Len(hist) = 4
    /\ IsNextAt(1) /\ hist[1].stan # <<0, 0, 0, 0, 0, 1>>
    /\ hist[2].op = "reset"
    /\ IsNextAt(3) /\ ~hist[3].rolled
    /\ IsNextAt(4) /\ hist[4].rolled
    /\ ret[1] = <<0, 0, 0, 0, 0, 1>>

\* C5 (SpecStan): every value next() returns, under any interleaving of
\* next(), reset() and date changes, is exactly 6 decimal digits with a
\* numeric value in 1..999999.
WellFormedStan(s) ==
    /\ Len(s) = StanWidth
    /\ IsDecimal(s)
    /\ DigitsVal(s) \in 1..MaxStan

C5_StanWellFormed ==
    /\ \A i \in 1..Len(hist) : hist[i].op = "next" => WellFormedStan(hist[i].stan)
    /\ \A t \in Tasks : ret[t] # <<>> => WellFormedStan(ret[t])

\* two calls are past the wrap point at once, a reset() has run, and a
\* wrapped value has been returned
C5_Witness ==
    /\ \E t \in Tasks : ret[t] = <<0, 0, 0, 0, 0, 1>>
    /\ \E t \in Tasks : pc[t] = "wrap" /\ next_val[t] > MaxStan + 1
    /\ \E i \in 1..Len(hist) : hist[i].op = "reset"
    /\ today > 1

-----------------------------------------------------------------------------
(* Iso8583TransactionService and the mock responder: pure parts *)

\* build_iso_message, line 134: processing code by transaction type
ProcessingCode(msg_type) ==
    CASE msg_type \in {"SALE", "PURCHASE"} -> "000000"
      [] msg_type = "CASH_WITHDRAWAL"     -> "010000"
      [] msg_type = "BALANCE_INQUIRY"     -> "310000"
      [] msg_type = "REFUND"              -> "200000"
      [] OTHER                            -> "000000"

\* build_iso_message, line 144: format!("{:012}", (amount * 100.0) as u64)
FmtAmount(amount) == ZeroPad(Digits(amount * 100), 12)

\* build_iso_message for a request with no merchantId and no cardData
BuildIsoMessage(r, st, d, t) ==
    LET m0 == NewMessage("0200")
        m1 == SetField(m0, 3, ProcessingCode(r.msg_type))
        m2 == SetField(m1, 4, FmtAmount(r.amount))
        m3 == SetField(m2, 7, FmtMDHMS(d, t))
        m4 == SetField(m3, 11, st)
        m5 == SetField(m4, 12, FmtHMS(t))
        m6 == SetField(m5, 13, FmtMD(d))
        m7 == SetField(m6, 22, "051")
        m8 == SetField(m7, 25, "00")
        m9 == SetField(m8, 41, r.trm_id)
    IN  SetField(m9, 49, "704")

RECURSIVE CopyFields(_, _, _)
\* create_db_transaction, lines 217-221: copy every field of the message
CopyFields(row, m, des) ==
    IF des = {} THEN row
    ELSE LET de == CHOOSE x \in des : TRUE IN
         CopyFields(RowSetField(row, de, GetField(m, de)), m, des \ {de})

\* create_db_transaction : Result<Iso8583Transaction, io::Error>
CreateDbTransaction(m, r, d, t) ==
    IF GetField(m, 11) = None
    THEN [ok |-> FALSE, row |-> NoRow]
    ELSE LET new    == NewTransaction(GetField(m, 11)[1], m.mti, d, t)
             copied == CopyFields(new, m, GetFieldNumbers(m))
         IN  [ok |-> TRUE,
              row |-> [copied EXCEPT !.trm_id = Some(r.trm_id),
                                     !.tr_uniq_no = r.transaction_id]]

\* MockBankResponseHandler::generate_rrn: YY DDD HH and six random digits
GenerateRrn(d, t, n) ==
    <<2, 6>> \o ZeroPad(Digits(d), 3) \o Pad2(t \div 3600) \o Fmt6(n)

\* a faulty variant of MockProcessRequest: an authorization code is made for
\* every response code
MockProcessRequest_AlwaysAuth(rq, code, d, t, n, a) ==
    LET mti == IF GetResponseMti(rq) # None THEN GetResponseMti(rq)[1] ELSE "0210"
        r0  == NewMessage(mti)
        r1  == SetFields(r0, rq, {2, 3, 4, 11, 12, 13, 14, 22, 41, 42, 49})
        r2  == SetField(r1, 37, GenerateRrn(d, t, n))
        r3  == SetField(r2, 39, code)
        r4  == SetField(r3, 38, Fmt6(a))
    IN  SetField(r4, 7, FmtMDHMS(d, t))

\* MockBankResponseHandler::process_request, with the response code and the
\* random digits it drew
MockProcessRequest(rq, code, d, t, n, a) ==
    LET mti == IF GetResponseMti(rq) # None THEN GetResponseMti(rq)[1] ELSE "0210"
        r0  == NewMessage(mti)
        r1  == SetFields(r0, rq, {2, 3, 4, 11, 12, 13, 14, 22, 41, 42, 49})
        r2  == SetField(r1, 37, GenerateRrn(d, t, n))
        r3  == SetField(r2, 39, code)
        r4  == IF code = "00" THEN SetField(r3, 38, Fmt6(a)) ELSE r3
    IN  SetField(r4, 7, FmtMDHMS(d, t))

\* ResponseHandler::parse_response, the TransactionState of the pair
ParseResponse(rs) ==
    IF GetField(rs, 39) # None /\ ResponseCodeFromStr(GetField(rs, 39)[1]) # None
    THEN ToTransactionState(ResponseCodeFromStr(GetField(rs, 39)[1])[1])
    ELSE "Failed"

\* a faulty variant of IsApproved: any response code counts as approval
IsApproved_AnyCode(rs) == GetField(rs, 39) # None

\* ResponseHandler::is_approved
IsApproved(rs) == GetField(rs, 39) # None /\ GetField(rs, 39)[1] = "00"

\* a faulty variant of BuildResponseJson: the terminal id is the transaction id
BuildResponseJson_WrongIds(r, rs, st, state) ==
    [status |-> IF IsApproved(rs) THEN "APPROVED" ELSE "DECLINED",
     transactionId |-> r.transaction_id, terminalId |-> r.transaction_id,
     stan |-> st, responseCode |-> GetField(rs, 39),
     authorizationCode |-> GetField(rs, 38), rrn |-> GetField(rs, 37),
     transactionState |-> AsStr(state), amount |-> r.amount]

\* build_response_json (responseMessage and timestamp left out)
BuildResponseJson(r, rs, st, state) ==
    [status |-> IF IsApproved(rs) THEN "APPROVED" ELSE "DECLINED",
     transactionId |-> r.transaction_id, terminalId |-> r.trm_id,
     stan |-> st, responseCode |-> GetField(rs, 39),
     authorizationCode |-> GetField(rs, 38), rrn |-> GetField(rs, 37),
     transactionState |-> AsStr(state), amount |-> r.amount]

\* a faulty variant of PreDispatchState: the record stays Created
PreDispatchState_Created == "Created"

\* process_transaction, line 79: the state written before dispatch
PreDispatchState == "Sent"

\* a faulty variant of AfterPersistError: the error is logged and the run goes on
AfterPersistError_Continue(nxt) == nxt

\* process_transaction, the `?` after each repository call: on Err the
\* function returns; `nxt` is the position a success leads to
AfterPersistError(nxt) == "done"

OkResult(json) == [ok |-> TRUE, returned |-> TRUE, json |-> json]
ErrResult == [ok |-> FALSE, returned |-> TRUE, json |-> <<>>]

-----------------------------------------------------------------------------
(* process_transaction, one step per await point *)

genUnchanged == <<lock, pc, cur_date, next_val, rolled, ret, hist, calls,
                  pristine, reachedMax>>

\* the time of day advances
ClockTick ==
    /\ clock < MaxClock
    /\ clock' = clock + 1
    /\ UNCHANGED <<stanVars, db, tpc, req, stan, msg, dbtx, resp, txstate,
                   result, sentMsg, log, writes, started>>
    /\ UNCHANGED <<revVars, otherVars>>

\* lines 48-56: stan_generator.next(), build_iso_message,
\* create_db_transaction
TxBegin(t, r) ==
    /\ tpc[t] = "idle"
    /\ started < MaxTx
    /\ started' = started + 1
    /\ LET g == NextAtomic(current, last_date, today)
           m == BuildIsoMessage(r, g.stan, today, clock)
           c == CreateDbTransaction(m, r, today, clock)
       IN  /\ current' = g.current
           /\ last_date' = g.last_date
           /\ stan' = [stan EXCEPT ![t] = g.stan]
           /\ msg' = [msg EXCEPT ![t] = m]
           /\ dbtx' = [dbtx EXCEPT ![t] = c.row]
           /\ IF c.ok
              THEN /\ tpc' = [tpc EXCEPT ![t] = "insert"]
                   /\ result' = [result EXCEPT ![t] = NoResult]
                   /\ log' = [log EXCEPT ![t] = <<"stan", "build">>]
              ELSE /\ tpc' = [tpc EXCEPT ![t] = "done"]
                   /\ result' = [result EXCEPT ![t] = ErrResult]
                   /\ log' = [log EXCEPT ![t] = <<"stan", "build_err">>]
    /\ req' = [req EXCEPT ![t] = r]
    /\ UNCHANGED <<today, genUnchanged, db, clock, resp, txstate, sentMsg,
                   writes>>
    /\ UNCHANGED <<revVars, otherVars>>

\* lines 60-66: transaction_repo.insert(&db_transaction).await ... ?
TxInsert(t, ok) ==
    /\ tpc[t] = "insert"
    /\ IF ok /\ KeyFree(db, dbtx[t])
       THEN /\ db' = DbInsert(db, dbtx[t])
            /\ writes' = [writes EXCEPT ![t] = Append(@, dbtx[t].tr_type[1])]
            /\ log' = [log EXCEPT ![t] = Append(@, "insert")]
            /\ tpc' = [tpc EXCEPT ![t] = "sent"]
            /\ UNCHANGED result
       ELSE /\ log' = [log EXCEPT ![t] = Append(@, "insert_err")]
            /\ tpc' = [tpc EXCEPT ![t] = AfterPersistError("sent")]
            /\ result' = [result EXCEPT ![t] = ErrResult]
            /\ UNCHANGED <<db, writes>>
    /\ UNCHANGED <<stanVars, clock, req, stan, msg, dbtx, resp, txstate,
                   sentMsg, started>>
    /\ UNCHANGED <<revVars, otherVars>>

\* lines 71-79: the update_response call made before the request goes out
UpdateToSent(table, row, now) ==
    DbUpdateResponse(table, row.tr_dt, row.tr_tm, row.tr_uniq_no, None, None,
                     None, PreDispatchState, now)

\* lines 71-82: update_response(.., None, None, None, &Sent).await ... ?
TxUpdateSent(t, ok) ==
    /\ tpc[t] = "sent"
    /\ IF ok
       THEN /\ db' = UpdateToSent(db, dbtx[t], FmtYMDHMS(today, clock))
            /\ writes' = [writes EXCEPT ![t] = Append(@, AsStr(PreDispatchState))]
            /\ log' = [log EXCEPT ![t] = Append(@, "sent")]
            /\ tpc' = [tpc EXCEPT ![t] = "dispatch"]
            /\ UNCHANGED result
       ELSE /\ log' = [log EXCEPT ![t] = Append(@, "sent_err")]
            /\ tpc' = [tpc EXCEPT ![t] = AfterPersistError("dispatch")]
            /\ result' = [result EXCEPT ![t] = ErrResult]
            /\ UNCHANGED <<db, writes>>
    /\ UNCHANGED <<stanVars, clock, req, stan, msg, dbtx, resp, txstate,
                   sentMsg, started>>
    /\ UNCHANGED <<revVars, otherVars>>

\* lines 85-86: the responder call starts, simulate_delay().await
TxDispatch(t) ==
    /\ tpc[t] = "dispatch"
    /\ log' = [log EXCEPT ![t] = Append(@, "responder")]
    /\ tpc' = [tpc EXCEPT ![t] = "await_reply"]
    /\ UNCHANGED <<stanVars, db, clock, req, stan, msg, dbtx, resp, txstate,
                   result, sentMsg, writes, started>>
    /\ UNCHANGED <<revVars, otherVars>>

\* lines 88-99: process_request(&request_msg).await, parse_response
TxReply(t, code) ==
    /\ tpc[t] = "await_reply"
    /\ sentMsg' = [sentMsg EXCEPT ![t] = msg[t]]
    /\ resp' = [resp EXCEPT ![t] =
                   MockProcessRequest(msg[t], code, today, clock, 123456, 100000)]
    /\ txstate' = [txstate EXCEPT ![t] = ParseResponse(resp'[t])]
    /\ log' = [log EXCEPT ![t] = Append(@, "reply")]
    /\ tpc' = [tpc EXCEPT ![t] = "final"]
    /\ UNCHANGED <<stanVars, db, clock, req, stan, msg, dbtx, result, writes,
                   started>>
    /\ UNCHANGED <<revVars, otherVars>>

\* lines 102-120: update_response(.., &state).await ... ?, then
\* build_response_json and Ok(response_json)
TxUpdateFinal(t, ok) ==
    /\ tpc[t] = "final"
    /\ IF ok
       THEN /\ db' = DbUpdateResponse(db, dbtx[t].tr_dt, dbtx[t].tr_tm,
                                      dbtx[t].tr_uniq_no, GetField(resp[t], 39),
                                      GetField(resp[t], 38), GetField(resp[t], 37),
                                      txstate[t], FmtYMDHMS(today, clock))
            /\ writes' = [writes EXCEPT ![t] = Append(@, AsStr(txstate[t]))]
            /\ log' = [log EXCEPT ![t] = Append(@, "final")]
            /\ result' = [result EXCEPT ![t] =
                   OkResult(BuildResponseJson(req[t], resp[t], stan[t], txstate[t]))]
            /\ tpc' = [tpc EXCEPT ![t] = "done"]
       ELSE /\ log' = [log EXCEPT ![t] = Append(@, "final_err")]
            /\ tpc' = [tpc EXCEPT ![t] = "done"]
            /\ result' = [result EXCEPT ![t] = ErrResult]
            /\ UNCHANGED <<db, writes>>
    /\ UNCHANGED <<stanVars, clock, req, stan, msg, dbtx, resp, txstate,
                   sentMsg, started>>
    /\ UNCHANGED <<revVars, otherVars>>

\* the caller has taken the result; the task is free for the next request
TxFinish(t) ==
    /\ tpc[t] = "done"
    /\ tpc' = [tpc EXCEPT ![t] = "idle"]
    /\ req' = [req EXCEPT ![t] = NoReq]
    /\ stan' = [stan EXCEPT ![t] = <<>>]
    /\ msg' = [msg EXCEPT ![t] = NoMsg]
    /\ dbtx' = [dbtx EXCEPT ![t] = NoRow]
    /\ resp' = [resp EXCEPT ![t] = NoMsg]
    /\ txstate' = [txstate EXCEPT ![t] = ""]
    /\ result' = [result EXCEPT ![t] = NoResult]
    /\ sentMsg' = [sentMsg EXCEPT ![t] = NoMsg]
    /\ log' = [log EXCEPT ![t] = <<>>]
    /\ writes' = [writes EXCEPT ![t] = <<>>]
    /\ UNCHANGED <<stanVars, db, clock, started>>
    /\ UNCHANGED <<revVars, otherVars>>

\* the generator is one call short of its last value of the day
TxnStartCounts == {999998}

TxnInit == OtherIdle /\ (\E c0 \in TxnStartCounts : GenInit(c0)) /\ TxnIdle /\ RevIdle

TxnNext ==
    \/ ClockTick
    \/ \E t \in Tasks, r \in Requests : TxBegin(t, r)
    \/ \E t \in Tasks, ok \in BOOLEAN : TxInsert(t, ok)
    \/ \E t \in Tasks, ok \in BOOLEAN : TxUpdateSent(t, ok)
    \/ \E t \in Tasks : TxDispatch(t)
    \/ \E t \in Tasks, code \in MockCodes : TxReply(t, code)
    \/ \E t \in Tasks, ok \in BOOLEAN : TxUpdateFinal(t, ok)
    \/ \E t \in Tasks : TxFinish(t)

\* concurrent process_transaction runs over one generator and one table
SpecTxn == TxnInit /\ [][TxnNext]_vars

-----------------------------------------------------------------------------
(* Claims about process_transaction *)

Has(l, x) == \E i \in 1..Len(l) : l[i] = x
Last(l) == l[Len(l)]
IsPrefix(a, b) == Len(a) <= Len(b) /\ SubSeq(b, 1, Len(a)) = a

C7_PersistErrorAborts ==
    \A t \in Tasks :
        /\ Has(log[t], "insert_err") =>
               /\ log[t] = <<"stan", "build", "insert_err">>
               /\ result[t] = ErrResult /\ tpc[t] = "done"
        /\ Has(log[t], "sent_err") =>
               /\ log[t] = <<"stan", "build", "insert", "sent_err">>
               /\ result[t] = ErrResult /\ tpc[t] = "done"
        /\ Has(log[t], "final_err") =>
               /\ log[t] = <<"stan", "build", "insert", "sent", "responder",
                             "reply", "final_err">>
               /\ result[t] = ErrResult /\ tpc[t] = "done"
        /\ result[t].ok => ~\E i \in 1..Len(log[t]) :
               log[t][i] \in {"insert_err", "sent_err", "final_err", "build_err"}

C7_Witness ==
    \E t, u \in Tasks :
        /\ Has(log[t], "sent_err") /\ result[t] = ErrResult
        /\ Has(log[u], "final_err") /\ result[u] = ErrResult
        /\ \E r \in db : r.tr_type = Some("CREATED")
        /\ \E r \in db : r.tr_type = Some("SENT")

C9_ResultEchoesRequest ==
    \A t \in Tasks :
        result[t].ok =>
            /\ result[t].json.transactionId = req[t].transaction_id
            /\ result[t].json.terminalId = req[t].trm_id
            /\ result[t].json.stan = stan[t]
            /\ WellFormedStan(result[t].json.stan)
            /\ GetField(sentMsg[t], 11) = Some(result[t].json.stan)
            /\ result[t].json.status \in {"APPROVED", "DECLINED"}
            /\ (result[t].json.status = "APPROVED") =
                   (result[t].json.transactionState = "APPROVED")

C9_Witness ==
    \E t \in Tasks :
        /\ result[t].ok
        /\ result[t].json.transactionId = <<1>>
        /\ result[t].json.terminalId = "T001"
        /\ result[t].json.stan = <<0, 0, 0, 0, 0, 1>>
        /\ result[t].json.status = "DECLINED"

-----------------------------------------------------------------------------
(* ReversalService *)

ReversalReasons ==
    {"Timeout", "CustomerCancellation", "SuspectedMalfunction",
     "UnableToDeliver", "Other"}

\* ReversalReason::as_code
AsCode(reason) ==
    CASE reason = "Timeout"              -> "68"
      [] reason = "CustomerCancellation" -> "17"
      [] reason = "SuspectedMalfunction" -> "96"
      [] reason = "UnableToDeliver"      -> "68"
      [] reason = "Other"                -> "99"

\* Option::unwrap_or
UnwrapOr(opt, dflt) == IF opt # None THEN opt[1] ELSE dflt

\* create_reversal, lines 45-62: `if let Some(v) = &original_tx.field { set }`
CopyIfSome(m, de, opt) == IF opt # None THEN SetField(m, de, opt[1]) ELSE m

\* a faulty variant of OriginalData: the time comes before the date
OriginalData_TimeFirst(orig) ==
    UnwrapOr(orig.field_012, <<0, 0, 0, 0, 0, 0>>)
        \o UnwrapOr(orig.field_013, <<0, 0, 0, 0>>)
        \o orig.tr_uniq_no

\* create_reversal, lines 65-70: the value of DE90
OriginalData(orig) ==
    UnwrapOr(orig.field_013, <<0, 0, 0, 0>>)
        \o UnwrapOr(orig.field_012, <<0, 0, 0, 0, 0, 0>>)
        \o orig.tr_uniq_no

\* create_reversal, given the STAN that stan_generator.next() returned
CreateReversal(orig, reason, st, d, t) ==
    LET m0 == SetField(NewMessage("0400"), 11, st)
        m1 == SetField(m0, 7, FmtMDHMS(d, t))
        m2 == SetField(m1, 12, FmtHMS(t))
        m3 == SetField(m2, 13, FmtMD(d))
        m4 == CopyIfSome(m3, 2, orig.field_002)
        m5 == CopyIfSome(m4, 3, orig.field_003)
        m6 == CopyIfSome(m5, 4, orig.field_004)
        m7 == CopyIfSome(m6, 41, orig.field_041)
        m8 == CopyIfSome(m7, 42, orig.field_042)
        m9 == CopyIfSome(m8, 49, orig.field_049)
        mA == SetField(m9, 90, OriginalData(orig))
    IN  SetField(mA, 56, AsCode(reason))

\* a faulty variant of ReversalGate: the Reversed check is missing
ReversalGate_NoReversedCheck(orig) ==
    IF orig.tr_type # None
        /\ StateFromStr(orig.tr_type[1]) = Some("Approved")
    THEN "TransactionAlreadyCompleted"
    ELSE "eligible"

\* auto_reverse_timeout, lines 100-108: the state check on the row found
ReversalGate(orig) ==
    IF orig.tr_type # None
    THEN LET state == StateFromStr(orig.tr_type[1]) IN
         IF state = Some("Approved") THEN "TransactionAlreadyCompleted"
         ELSE IF state = Some("Reversed") THEN "AlreadyReversed"
         ELSE "eligible"
    ELSE "eligible"

RevErr(op, st, found, e) ==
    [op |-> op, stan |-> st, found |-> found, day |-> today, kind |-> "Err",
     err |-> e, msg |-> NoMsg]

RevOk(op, st, found, m) ==
    [op |-> op, stan |-> st, found |-> found, day |-> today, kind |-> "Ok",
     err |-> "", msg |-> m]

\* a faulty variant of StanDrawn: the STAN is drawn before the checks
StanDrawn_Always(outcome) == TRUE

\* auto_reverse_timeout and manual_reverse reach create_reversal, and with
\* it stan_generator.next(), only past every `?` and every early return
StanDrawn(outcome) == outcome = "eligible"

\* auto_reverse_timeout, lines 92-108: how the call leaves the lookup and
\* the state check
AutoOutcome(found, dbok) ==
    IF ~dbok THEN "DatabaseError"
    ELSE IF found = None THEN "TransactionNotFound"
    ELSE ReversalGate(found[1])

\* manual_reverse, lines 121-126: the lookup, and no state check
ManualOutcome(found, dbok) ==
    IF ~dbok THEN "DatabaseError"
    ELSE IF found = None THEN "TransactionNotFound"
    ELSE "eligible"

\* the rest of a reversal call: create_reversal run to completion when the
\* outcome allows it (the generator advances, the message is returned), the
\* error otherwise
FinishReversal(op, st, found, dbok, outcome, reason) ==
    LET g == NextAtomic(current, last_date, today) IN
        /\ IF StanDrawn(outcome)
           THEN current' = g.current /\ last_date' = g.last_date
           ELSE UNCHANGED <<current, last_date>>
        /\ revOut' =
             IF outcome = "eligible"
             THEN RevOk(op, st, found,
                        CreateReversal(found[1], reason, g.stan, today, clock))
             ELSE RevErr(op, st, IF dbok THEN found ELSE None, outcome)

\* auto_reverse_timeout(original_stan); dbok: the query did not fail
AutoReverseTimeout(st, dbok) ==
    /\ revCalls < MaxRev
    /\ revCalls' = revCalls + 1
    /\ LET found == FindByStanToday(db, st, today) IN
           FinishReversal("auto", st, found, dbok, AutoOutcome(found, dbok),
                          "Timeout")
    /\ UNCHANGED <<today, genUnchanged, txnVars, otherVars>>

\* manual_reverse(original_stan, reason)
ManualReverse(st, reason, dbok) ==
    /\ revCalls < MaxRev
    /\ revCalls' = revCalls + 1
    /\ LET found == FindByStanToday(db, st, today) IN
           FinishReversal("manual", st, found, dbok, ManualOutcome(found, dbok),
                          reason)
    /\ UNCHANGED <<today, genUnchanged, txnVars, otherVars>>

\* the row a key selects, as an Option (the key is unique in the table)
RowAt(table, key) ==
    IF RowsAt(table, key) = {} THEN None
    ELSE Some(CHOOSE r \in RowsAt(table, key) : TRUE)

\* lines 137-148: the update_response call of mark_as_reversed
UpdateToReversed(table, key, now) ==
    DbUpdateResponse(table, key[1], key[2], key[3], Some("99"), None, None,
                     "Reversed", now)

\* mark_as_reversed(tr_dt, tr_tm, tr_uniq_no); the result remembers the row
\* as it was before the update
MarkAsReversed(key, dbok) ==
    /\ revCalls < MaxRev
    /\ revCalls' = revCalls + 1
    /\ IF ~dbok
       THEN /\ revOut' = RevErr("mark", key[3], None, "DatabaseError")
            /\ UNCHANGED db
       ELSE /\ db' = UpdateToReversed(db, key, FmtYMDHMS(today, clock))
            /\ revOut' = RevOk("mark", key[3], RowAt(db, key), NoMsg)
    /\ UNCHANGED <<stanVars, clock, tpc, req, stan, msg, dbtx, resp, txstate,
                   result, sentMsg, log, writes, started>>
    /\ UNCHANGED otherVars

\* the STANs the callers ask about: one that rows carry, one that none does
RevStans == {<<1, 2, 3, 4, 5, 6>>, <<6, 5, 4, 3, 2, 1>>}

\* what the tr_type column can hold: TransactionState::as_str, or NULL
StoredTypes == {Some(AsStr(st)) : st \in TransactionStates} \cup {None}

\* a row as the reversal tests build it (create_test_transaction), stored
\* at second `t` of day `d` with tr_type `typ`
TestRow(st, d, t, typ) ==
    LET r0 == NewTransaction(st, "0200", d, t)
        r1 == RowSetField(r0, 2, Some("4111111111111111"))
        r2 == RowSetField(r1, 3, Some("000000"))
        r3 == RowSetField(r2, 4, Some(FmtAmount(1000)))
        r4 == RowSetField(r3, 41, Some("TERM0001"))
        r5 == RowSetField(r4, 42, Some("MERCHANT001"))
        r6 == RowSetField(r5, 49, Some("704"))
    IN  [r6 EXCEPT !.tr_type = typ]

RevKeys == {<<FmtYMD(1), FmtHMS(t), st>> : t \in 0..1, st \in RevStans}

\* a row read back with the field_012 and field_013 columns NULL
WithoutLocalTime(r) == [r EXCEPT !.field_012 = None, !.field_013 = None]

\* the table holds one row of today in any state, with or without its
\* local date and time columns, and, or not, an earlier row of the same STAN
RevInit ==
    /\ GenInit(0)
    /\ NoRuns
    /\ RevIdle
    /\ OtherIdle
    /\ \E typ \in StoredTypes, bare \in BOOLEAN :
       \E older \in {{}, {TestRow(<<1, 2, 3, 4, 5, 6>>, 1, 0, Some("APPROVED"))},
                         {TestRow(<<1, 2, 3, 4, 5, 6>>, 1, 0, Some("TIMEOUT"))}} :
           LET r == TestRow(<<1, 2, 3, 4, 5, 6>>, 1, 1, typ) IN
           db = {IF bare THEN WithoutLocalTime(r) ELSE r} \cup older

RevNext ==
    \/ Tick
    \/ \E st \in RevStans, dbok \in BOOLEAN : AutoReverseTimeout(st, dbok)
    \/ \E st \in RevStans, reason \in {"Timeout", "CustomerCancellation"},
          dbok \in BOOLEAN : ManualReverse(st, reason, dbok)
    \/ \E key \in RevKeys, dbok \in BOOLEAN : MarkAsReversed(key, dbok)

\* reversal calls over a table that holds transactions in every state
SpecRev == RevInit /\ [][RevNext]_vars

-----------------------------------------------------------------------------
(* Claims about the reversal engine *)

\* the row find_by_stan_today selects for the last call: the latest row of
\* the call's day with the call's STAN
HitsOfLastCall ==
    {r \in db : r.tr_dt = FmtYMD(revOut.day) /\ r.tr_uniq_no = revOut.stan}

LatestHit ==
    CHOOSE r \in HitsOfLastCall :
        \A q \in HitsOfLastCall : DigitsVal(q.tr_tm) <= DigitsVal(r.tr_tm)

IsReversalMessage(m) ==
    /\ m.mti = "0400"
    /\ GetField(m, 11) # None /\ WellFormedStan(GetField(m, 11)[1])
    /\ GetField(m, 90) # None
    /\ GetField(m, 56) # None

\* C10 (SpecRev): auto_reverse_timeout returns TransactionAlreadyCompleted
\* for a stored state Approved, AlreadyReversed for Reversed,
\* TransactionNotFound when no record matches, and a reversal message for
\* each of Created, Sent, Declined, Timeout, Voided, Failed.
C10_AutoReverseGate ==
    (revOut.op = "auto" /\ revOut.err # "DatabaseError") =>
        IF HitsOfLastCall = {}
        THEN revOut.kind = "Err" /\ revOut.err = "TransactionNotFound"
        ELSE /\ LatestHit.tr_type = Some("APPROVED") =>
                    revOut.kind = "Err" /\ revOut.err = "TransactionAlreadyCompleted"
             /\ LatestHit.tr_type = Some("REVERSED") =>
                    revOut.kind = "Err" /\ revOut.err = "AlreadyReversed"
             /\ LatestHit.tr_type \in
                    {Some("CREATED"), Some("SENT"), Some("DECLINED"),
                     Some("TIMEOUT"), Some("VOIDED"), Some("FAILED")} =>
                    /\ revOut.kind = "Ok"
                    /\ IsReversalMessage(revOut.msg)
                    /\ GetField(revOut.msg, 56) = Some("68")

\* the second call is refused with AlreadyReversed: the latest row of the
\* STAN is Reversed although an older row of the same STAN is Approved
C10_Witness ==
    /\ revOut.op = "auto"
    /\ revOut.err = "AlreadyReversed"
    /\ revCalls = 2
    /\ Cardinality(HitsOfLastCall) = 2
    /\ \E r \in HitsOfLastCall : r.tr_type = Some("APPROVED")

\* the last call was auto_reverse_timeout or manual_reverse
IsReverseCall == revOut.op \in {"auto", "manual"}

\* C11 (SpecRev): through auto_reverse_timeout, manual_reverse and
\* mark_as_reversed a transaction whose stored state is Approved or Reversed
\* is rejected: no reversal message is produced for it and it is not marked
\* reversed again.
C11_TerminalRejected ==
    (revOut.kind = "Ok" /\ revOut.found # None) =>
        revOut.found[1].tr_type \notin {Some("APPROVED"), Some("REVERSED")}

C13_ErrorHasNoSideEffect ==
    [][(revCalls' # revCalls /\ revOut'.op \in {"auto", "manual"}
            /\ revOut'.kind = "Err")
        => (current' = current /\ last_date' = last_date /\ db' = db)]_vars

\* an error was returned after an earlier call had drawn a STAN: each of
\* the three errors the two entry points can return
C13_Witness ==
    /\ IsReverseCall
    /\ revOut.kind = "Err"
    /\ revOut.err \in {"TransactionNotFound", "AlreadyReversed",
                       "TransactionAlreadyCompleted"}
    /\ current = 1
    /\ revCalls = 2

-----------------------------------------------------------------------------
(* Connection layer: TcpServer::start, the spawned connection task,        *)
(* handle_client_logic and handle_message; the supervisor of builder::run  *)
(* and main                                                                *)

\* the k-th payload a terminal sends: valid UTF-8 or not, a JSON envelope
\* or not, and its cardData: absent, not the expected JSON, carrying a DE55
\* that is not TLV, or well-formed
Payload(u, j, cd, k) == [utf8 |-> u, json |-> j, card |-> cd, txid |-> k]

Payloads(k) ==
    {Payload(FALSE, FALSE, "none", k), Payload(TRUE, FALSE, "none", k),
     Payload(TRUE, TRUE, "none", k), Payload(TRUE, TRUE, "bad", k),
     Payload(TRUE, TRUE, "badDe55", k), Payload(TRUE, TRUE, "ok", k)}

IoOk(bytes) == [ok |-> TRUE, bytes |-> bytes, err |-> ""]

IoErr(kind) == [ok |-> FALSE, bytes |-> NoBytes, err |-> kind]

\* String::from_utf8(buffer[..n].to_vec())
FromUtf8(p) == IF p.utf8 THEN Some(p) ELSE None

\* serde_json::from_str::<CardRequest>(raw_msg)
ParseCardRequest(p) == IF p.json THEN Some(p) ELSE None

\* CardRequest::get_de55: Ok(None) without cardData, Err when cardData is
\* not the expected JSON, Ok(Some(de55)) otherwise
GetDe55(p) ==
    CASE p.card = "none" -> "OkNone"
      [] p.card = "bad"  -> "Err"
      [] OTHER           -> "OkSome"

\* build_ack_response
BuildAckResponse(p) == [status |-> "RECEIVED", transactionId |-> p.txid]

\* handle_message(raw_msg): the envelope and cardData are parsed with `?`;
\* a DE55 that is not TLV is logged and dropped (lines 85-88), and the
\* acknowledgment is built from the request alone
HandleMessage(p) ==
    IF ParseCardRequest(p) = None THEN IoErr("InvalidData")
    ELSE IF GetDe55(p) = "Err" THEN IoErr("InvalidData")
    ELSE IoOk(BuildAckResponse(p))

Ended(kind, err) == [kind |-> kind, err |-> err]

\* a faulty variant of AfterRead: a timed-out read is tried again
AfterRead_TimeoutRetries(outcome) ==
    CASE outcome = "Zero"    -> [pc |-> "done", res |-> Ended("Ok", "")]
      [] outcome = "Bytes"   -> [pc |-> "handle", res |-> NoEnd]
      [] outcome = "Err"     -> [pc |-> "done", res |-> Ended("Err", "ReadError")]
      [] outcome = "Timeout" -> [pc |-> "read", res |-> NoEnd]

\* handle_client_logic, the match on timeout(30 s, read_data): where the
\* task goes and what it returns
AfterRead(outcome) ==
    CASE outcome = "Zero"    -> [pc |-> "done", res |-> Ended("Ok", "")]
      [] outcome = "Bytes"   -> [pc |-> "handle", res |-> NoEnd]
      [] outcome = "Err"     -> [pc |-> "done", res |-> Ended("Err", "ReadError")]
      [] outcome = "Timeout" -> [pc |-> "done", res |-> Ended("Err", "TimedOut")]

\* a faulty variant of AfterPayload: the next read is issued at once
AfterPayload_ReadNext == "read"

\* handle_client_logic, line 107: the response is written before the loop
\* goes round
AfterPayload == "write"

\* a faulty variant of OnTaskEnd: the task's error ends the accept loop
OnTaskEnd_StopsListener(l, res) == IF res.kind = "Ok" THEN l ELSE "failed"

\* TcpServer::start, lines 43-63: the spawned block returns () whatever
\* happened in it, and the accept loop never joins it
OnTaskEnd(l, res) == l

\* the payloads the task has read so far
ReadsOf(c) == Cardinality({i \in DOMAIN clog[c] : clog[c][i][1] = "read"})

\* the task of connection c ends with `res`
TaskEnds(c, res) ==
    /\ cpc' = [cpc EXCEPT ![c] = "done"]
    /\ cres' = [cres EXCEPT ![c] = res]
    /\ listener' = OnTaskEnd(listener, res)

\* what no action of the connection layer touches
connFrame == <<stanVars, txnVars, revVars, bitmapVars, msgVars, codecVars,
               tlvVars, svcVars>>

\* listener.accept() returns a stream and the task is spawned
Accept(c) ==
    /\ listener = "accepting"
    /\ cpc[c] = "none"
    /\ cpc' = [cpc EXCEPT ![c] = IF mode = "Tls" THEN "handshake" ELSE "read"]
    /\ UNCHANGED <<mode, listener, sup, cin, cbuf, cresp, cres, clog>>
    /\ UNCHANGED connFrame

\* listener.accept() fails: start returns the error, run() returns it, the
\* core task of main ends
AcceptError ==
    /\ listener = "accepting"
    /\ listener' = "failed"
    /\ sup' = IF sup = "running" THEN "stopping" ELSE sup
    /\ UNCHANGED <<mode, cpc, cin, cbuf, cresp, cres, clog>>
    /\ UNCHANGED connFrame

\* acc.accept(stream) in the spawned task
Handshake(c, ok) ==
    /\ cpc[c] = "handshake"
    /\ IF ok
       THEN /\ cpc' = [cpc EXCEPT ![c] = "read"]
            /\ UNCHANGED <<cres, listener>>
       ELSE TaskEnds(c, Ended("HandshakeFailed", ""))
    /\ UNCHANGED <<mode, sup, cin, cbuf, cresp, clog>>
    /\ UNCHANGED connFrame

\* timeout(30 s, connection.read_data(&mut buffer)) completes
ReadData(c, outcome, p) ==
    /\ cpc[c] = "read"
    /\ cin' = [cin EXCEPT ![c] = outcome]
    /\ IF outcome = "Bytes"
       THEN /\ ReadsOf(c) < MaxReads
            /\ cbuf' = [cbuf EXCEPT ![c] = p]
            /\ clog' = [clog EXCEPT ![c] = Append(@, <<"read", p.txid>>)]
       ELSE UNCHANGED <<cbuf, clog>>
    /\ IF AfterRead(outcome).pc = "done"
       THEN TaskEnds(c, AfterRead(outcome).res)
       ELSE /\ cpc' = [cpc EXCEPT ![c] = AfterRead(outcome).pc]
            /\ UNCHANGED <<cres, listener>>
    /\ UNCHANGED <<mode, sup, cresp>>
    /\ UNCHANGED connFrame

\* from_utf8, trim and handle_message, each followed by `?`
HandlePayload(c) ==
    /\ cpc[c] = "handle"
    /\ IF FromUtf8(cbuf[c]) = None
       THEN /\ TaskEnds(c, Ended("Err", "InvalidData"))
            /\ UNCHANGED cresp
       ELSE LET r == HandleMessage(FromUtf8(cbuf[c])[1]) IN
            IF ~r.ok
            THEN /\ TaskEnds(c, Ended("Err", "Other"))
                 /\ UNCHANGED cresp
            ELSE /\ cresp' = [cresp EXCEPT ![c] = r.bytes]
                 /\ cpc' = [cpc EXCEPT ![c] = AfterPayload]
                 /\ UNCHANGED <<cres, listener>>
    /\ UNCHANGED <<mode, sup, cin, cbuf, clog>>
    /\ UNCHANGED connFrame

\* connection.write_data(&response_bytes).await?
WriteData(c, ok) ==
    /\ cpc[c] = "write"
    /\ IF ok
       THEN /\ clog' = [clog EXCEPT
                          ![c] = Append(@, <<"write", cresp[c].transactionId>>)]
            /\ cpc' = [cpc EXCEPT ![c] = "read"]
            /\ UNCHANGED <<cres, listener>>
       ELSE /\ TaskEnds(c, Ended("Err", "WriteError"))
            /\ UNCHANGED clog
    /\ UNCHANGED <<mode, sup, cin, cbuf, cresp>>
    /\ UNCHANGED connFrame

\* ctrl_c() completes in the select! of run() or of main()
ShutdownSignal ==
    /\ sup = "running"
    /\ sup' = "stopping"
    /\ UNCHANGED <<mode, listener, cpc, cin, cbuf, cresp, cres, clog>>
    /\ UNCHANGED connFrame

\* the task is parked at an .await
Suspended(c) == cpc[c] \in {"handshake", "read", "write"}

\* main returns Ok(()): the runtime is dropped and with it the accept loop
\* and every task parked at an .await; on the single-threaded runtime of
\* actix_web::main no task is between two awaits at this point
MainReturns ==
    /\ sup = "stopping"
    /\ \A c \in Conns : cpc[c] # "handle"
    /\ sup' = "exited"
    /\ listener' = "dropped"
    /\ cpc' = [c \in Conns |-> IF Suspended(c) THEN "done" ELSE cpc[c]]
    /\ cres' = [c \in Conns |->
                  IF Suspended(c) THEN Ended("Cancelled", "") ELSE cres[c]]
    /\ UNCHANGED <<mode, cin, cbuf, cresp, clog>>
    /\ UNCHANGED connFrame

\* TcpServer::new(address, mode), then start() has bound the listener
ConnInit ==
    /\ GenInit(0)
    /\ TxnIdle
    /\ RevIdle
    /\ mode \in {"Plain", "Tls"}
    /\ listener = "accepting"
    /\ sup = "running"
    /\ cpc = [c \in Conns |-> "none"]
    /\ cin = [c \in Conns |-> "none"]
    /\ cbuf = [c \in Conns |-> NoPayload]
    /\ cresp = [c \in Conns |-> NoBytes]
    /\ cres = [c \in Conns |-> NoEnd]
    /\ clog = [c \in Conns |-> <<>>]
    /\ BitmapIdle
    /\ CodecsIdle

ConnNext ==
    \/ \E c \in Conns : Accept(c)
    \/ AcceptError
    \/ \E c \in Conns, ok \in BOOLEAN : Handshake(c, ok)
    \/ \E c \in Conns, outcome \in {"Zero", "Bytes", "Err", "Timeout"} :
          \E p \in Payloads(ReadsOf(c) + 1) : ReadData(c, outcome, p)
    \/ \E c \in Conns : HandlePayload(c)
    \/ \E c \in Conns, ok \in BOOLEAN : WriteData(c, ok)
    \/ ShutdownSignal
    \/ MainReturns

\* the server and its connections
SpecConn == ConnInit /\ [][ConnNext]_vars

-----------------------------------------------------------------------------
(* Claims about the connection layer *)

\* the responses written so far on connection c
WritesOf(c) == Cardinality({i \in DOMAIN clog[c] : clog[c][i][1] = "write"})

\* C14 (SpecConn): in the per-connection loop a zero-length read ends the
\* loop with Ok, a read error ends it with that error, a read that times
\* out ends it with TimedOut, and only a read of n > 0 bytes leads to
\* handling the payload, writing the result and reading again.
C14_ReadOutcomes ==
    \A c \in Conns :
        /\ cin[c] = "Zero" => cpc[c] = "done" /\ cres[c] = Ended("Ok", "")
        /\ cin[c] = "Err" =>
               cpc[c] = "done" /\ cres[c] = Ended("Err", "ReadError")
        /\ cin[c] = "Timeout" =>
               cpc[c] = "done" /\ cres[c] = Ended("Err", "TimedOut")
        /\ cpc[c] \in {"handle", "write"} => cin[c] = "Bytes"
        /\ clog[c] # <<>> => cin[c] # "none"
        /\ cres[c].kind = "Ok" => cin[c] = "Zero"

\* one connection timed out after a full round of read, handle and write,
\* the other was closed by its peer
C14_Witness ==
    /\ cres[1] = Ended("Err", "TimedOut")
    /\ clog[1] = <<<<"read", 1>>, <<"write", 1>>>>
    /\ cres[2] = Ended("Ok", "")

\* C15 (SpecConn): within one connection the response to the k-th payload
\* is written before the read for the (k+1)-th payload is issued, and the
\* responses are written in the order the payloads were read.
C15_OneAtATime ==
    \A c \in Conns :
        /\ \A i \in DOMAIN clog[c] :
               clog[c][i] = IF i % 2 = 1 THEN <<"read", (i + 1) \div 2>>
                            ELSE <<"write", i \div 2>>
        /\ cpc[c] = "read" => WritesOf(c) = ReadsOf(c)

\* two payloads were read and answered on one connection
C15_Witness ==
    clog[1] = <<<<"read", 1>>, <<"write", 1>>, <<"read", 2>>, <<"write", 2>>>>

\* the task of connection c ends in this step with a failure
Fails(c) ==
    /\ cpc[c] # "done"
    /\ cpc'[c] = "done"
    /\ cres'[c].kind \in {"Err", "HandshakeFailed"}

\* C16 (SpecConn): a TLS handshake failure, a read error, a read timeout or
\* an error while handling a payload ends only that connection's task: the
\* listener keeps accepting and the other connections are left as they are.
C16_FailureIsolated ==
    [][\A c \in Conns :
         Fails(c) =>
            /\ listener' = listener
            /\ \A d \in Conns \ {c} :
                 /\ cpc'[d] = cpc[d]
                 /\ cres'[d] = cres[d]
                 /\ clog'[d] = clog[d]]_vars

\* one connection has failed while the listener accepts and the other
\* connection has been served and waits for its next request
C16_Witness ==
    /\ cres[1].kind \in {"Err", "HandshakeFailed"}
    /\ listener = "accepting"
    /\ cpc[2] = "read"
    /\ clog[2] = <<<<"read", 1>>, <<"write", 1>>>>

\* the payload cannot be decoded
Undecodable(p) == ~p.utf8 \/ ~p.json \/ p.card \in {"bad", "badDe55"}

\* C17 (SpecConn): when a received payload cannot be decoded (invalid UTF-8,
\* invalid JSON envelope, malformed cardData or DE55) a failure envelope is
\* written back and the connection stays open for the next request.
C17_DecodeFailureKeepsConnection ==
    \A c \in Conns :
        (cin[c] = "Bytes" /\ Undecodable(cbuf[c]) /\ cpc[c] # "handle") =>
            /\ ~(cpc[c] = "done" /\ cres[c].kind = "Err"
                    /\ cres[c].err \in {"InvalidData", "Other"})
            /\ cpc[c] = "write" => cresp[c].status # "RECEIVED"

\* C18 (SpecConn): the shutdown signal does not cancel a connection task in
\* the middle of a request: every payload that was read gets its response
\* written before the task ends.
C18_InFlightDrains ==
    \A c \in Conns : cres[c].kind = "Cancelled" => WritesOf(c) = ReadsOf(c)

-----------------------------------------------------------------------------
(* Bitmap: set_bit, clear_bit, is_set, to_hex, from_hex *)

HexUpper == <<"0", "1", "2", "3", "4", "5", "6", "7",
              "8", "9", "A", "B", "C", "D", "E", "F">>

HexLower == <<"0", "1", "2", "3", "4", "5", "6", "7",
              "8", "9", "a", "b", "c", "d", "e", "f">>

\* the value of a hex digit, -1 for any other character (hex::decode takes
\* both cases)
HexVal(ch) ==
    IF \E i \in 1..16 : HexUpper[i] = ch
    THEN (CHOOSE i \in 1..16 : HexUpper[i] = ch) - 1
    ELSE IF \E i \in 1..16 : HexLower[i] = ch
    THEN (CHOOSE i \in 1..16 : HexLower[i] = ch) - 1
    ELSE -1

\* hex::encode_upper(bytes)
HexEncodeUpper(bytes) ==
    [i \in 1..(2 * Len(bytes)) |->
        LET byte == bytes[(i + 1) \div 2] IN
        IF i % 2 = 1 THEN HexUpper[(byte \div 16) + 1]
        ELSE HexUpper[(byte % 16) + 1]]

\* hex::decode(hex): Err on an odd length or a character that is no digit
HexDecode(hex) ==
    IF Len(hex) % 2 # 0 \/ \E i \in DOMAIN hex : HexVal(hex[i]) < 0
    THEN [ok |-> FALSE, bytes |-> <<>>]
    ELSE [ok |-> TRUE,
          bytes |-> [k \in 1..(Len(hex) \div 2) |->
                        16 * HexVal(hex[2 * k - 1]) + HexVal(hex[2 * k])]]

\* byte & (1 << k) != 0
BitOfByte(byte, k) == (byte \div 2 ^ k) % 2 = 1

\* to_hex, lines 176-183: the byte at byte_idx (from 0)
ByteOf(b, byte_idx) ==
    LET v(bit_idx) ==
            IF byte_idx * 8 + bit_idx < BitmapBits /\ b[byte_idx * 8 + bit_idx + 1]
            THEN 2 ^ (7 - bit_idx) ELSE 0
    IN  v(0) + v(1) + v(2) + v(3) + v(4) + v(5) + v(6) + v(7)

\* a faulty variant of HasSecondary: bit 1 is trusted
HasSecondary_ByBitOne(b) == b[1]

\* to_hex, line 170: any of the bits after the first 64 is set
HasSecondary(b) == \E de \in (PrimaryBits + 1)..BitmapBits : b[de]

\* Bitmap::to_hex
ToHex(b) ==
    LET byte_count == IF HasSecondary(b) THEN 16 ELSE 8 IN
    HexEncodeUpper([k \in 1..byte_count |-> ByteOf(b, k - 1)])

\* hex.trim().replace(" ", "")
StripSpaces(hex) == SelectSeq(hex, LAMBDA ch : ch # " ")

\* Bitmap::from_hex
FromHex(hex) ==
    LET h == StripSpaces(hex) IN
    IF Len(h) # 16 /\ Len(h) # 32
    THEN [ok |-> FALSE, bitmap |-> NewBitmap, err |-> "Invalid bitmap length"]
    ELSE LET d == HexDecode(h) IN
         IF ~d.ok
         THEN [ok |-> FALSE, bitmap |-> NewBitmap, err |-> "hex"]
         ELSE [ok |-> TRUE, err |-> "",
               bitmap |-> [pos \in 1..BitmapBits |->
                   LET byte_idx == (pos - 1) \div 8
                       bit_idx == (pos - 1) % 8
                   IN  /\ byte_idx < Len(d.bytes)
                       /\ BitOfByte(d.bytes[byte_idx + 1], 7 - bit_idx)]]

\* a faulty variant of SetBitOf: the secondary indicator is not maintained
SetBitOf_NoIndicator(b, de) ==
    IF de >= 1 /\ de <= BitmapBits THEN [b EXCEPT ![de] = TRUE] ELSE b

\* Bitmap::set_bit
SetBitOf(b, de) ==
    IF de >= 1 /\ de <= BitmapBits
    THEN LET b1 == [b EXCEPT ![de] = TRUE] IN
         IF de > PrimaryBits THEN [b1 EXCEPT ![1] = TRUE] ELSE b1
    ELSE b

\* Bitmap::clear_bit
ClearBitOf(b, de) ==
    IF de >= 1 /\ de <= BitmapBits THEN [b EXCEPT ![de] = FALSE] ELSE b

\* Bitmap::is_set
IsSet(b, de) == IF de >= 1 /\ de <= BitmapBits THEN b[de] ELSE FALSE

\* the `de: u8` arguments of the model: both ends of both halves of the
\* bitmap and the values next to them
BitArgs == {0, 1, 2, 3, 63, 64, 65, 66, 127, 128, 129, 255}

\* what no action on the bitmap touches
bitmapFrame == <<stanVars, txnVars, revVars, connVars, msgVars, codecVars,
                 tlvVars, svcVars>>

SetBit(de) ==
    /\ bmOps < MaxBitOps
    /\ bmOps' = bmOps + 1
    /\ bmLast' = [op |-> "set", de |-> de, bit1 |-> IsSet(bits, 1)]
    /\ bits' = SetBitOf(bits, de)
    /\ bmSecAdded' = (bmSecAdded \/ de \in (PrimaryBits + 1)..BitmapBits)
    /\ UNCHANGED bmOrigin
    /\ UNCHANGED bitmapFrame

ClearBit(de) ==
    /\ bmOps < MaxBitOps
    /\ bmOps' = bmOps + 1
    /\ bmLast' = [op |-> "clear", de |-> de, bit1 |-> IsSet(bits, 1)]
    /\ bits' = ClearBitOf(bits, de)
    /\ UNCHANGED <<bmOrigin, bmSecAdded>>
    /\ UNCHANGED bitmapFrame

RECURSIVE SetBits(_, _)
\* from_fields, lines 106-110: set_bit for every key in 1..128
SetBits(b, keys) ==
    IF keys = {} THEN b
    ELSE LET de == CHOOSE x \in keys : TRUE IN
         SetBits(IF de >= 1 /\ de <= BitmapBits THEN SetBitOf(b, de) ELSE b,
                 keys \ {de})

\* Bitmap::from_fields, given the keys of the field map
FromFields(keys) == SetBits(NewBitmap, keys)

\* the key sets of the model's field maps
FieldKeySets == {{}, {1}, {2, 3}, {1, 64}, {3, 65}, {2, 128}, {0, 2, 129}}

\* the hex strings handed to from_hex: primary only with and without bit
\* 1, both halves with and without bit 1, three halves, something that is
\* no hex
HexInputs ==
    {HexEncodeUpper(<<64, 0, 0, 0, 0, 0, 0, 1>>),
     HexEncodeUpper(<<128, 0, 0, 0, 0, 0, 0, 0>>),
     HexEncodeUpper(<<192, 0, 0, 0, 0, 0, 0, 0, 128, 0, 0, 0, 0, 0, 0, 1>>),
     HexEncodeUpper(<<64, 0, 0, 0, 0, 0, 0, 0, 128, 0, 0, 0, 0, 0, 0, 0>>),
     HexEncodeUpper(<<0, 0, 0, 0>>),
     <<"Z", "0", "0", "0", "0", "0", "0", "0",
       "0", "0", "0", "0", "0", "0", "0", "0">>}

\* let bitmap = Bitmap::from_fields(&fields)
FromFieldsCall(keys) ==
    /\ bmOps < MaxBitOps
    /\ bmOps' = bmOps + 1
    /\ bmLast' = [op |-> "from_fields", de |-> 0, bit1 |-> FALSE]
    /\ bits' = FromFields(keys)
    /\ bmOrigin' = "from_fields"
    /\ bmSecAdded' = (\E de \in keys : de \in (PrimaryBits + 1)..BitmapBits)
    /\ UNCHANGED bitmapFrame

\* let bitmap = Bitmap::from_hex(hex)?; an Err leaves the caller without a
\* new bitmap
FromHexCall(hex) ==
    /\ bmOps < MaxBitOps
    /\ bmOps' = bmOps + 1
    /\ bmLast' = [op |-> IF FromHex(hex).ok THEN "from_hex" ELSE "from_hex_err",
                  de |-> 0, bit1 |-> FALSE]
    /\ IF FromHex(hex).ok
       THEN /\ bits' = FromHex(hex).bitmap
            /\ bmOrigin' = "from_hex"
            /\ bmSecAdded' = HasSecondary(FromHex(hex).bitmap)
       ELSE UNCHANGED <<bits, bmOrigin, bmSecAdded>>
    /\ UNCHANGED bitmapFrame

BitmapInit ==
    /\ GenInit(0)
    /\ TxnIdle
    /\ RevIdle
    /\ ConnIdle
    /\ BitmapIdle
    /\ CodecsIdle

BitmapNext ==
    \/ \E de \in BitArgs : SetBit(de)
    \/ \E de \in BitArgs : ClearBit(de)
    \/ \E keys \in FieldKeySets : FromFieldsCall(keys)
    \/ \E hex \in HexInputs : FromHexCall(hex)

\* a bitmap under any sequence of set_bit and clear_bit
SpecBitmap == BitmapInit /\ [][BitmapNext]_vars

-----------------------------------------------------------------------------
(* Claims about the bitmap *)

\* C19 (SpecBitmap): for every bitmap b that set_bit and clear_bit calls
\* can produce, from_hex(to_hex(b)) succeeds and has the same 128 bit
\* values as b.
C19_HexRoundTrip ==
    LET r == FromHex(ToHex(bits)) IN r.ok /\ r.bitmap = bits

\* a bitmap whose secondary bits were set and cleared again: bit 1 is still
\* set and to_hex writes the primary half only
C19_Witness ==
    /\ bits[1]
    /\ bits[PrimaryBits]
    /\ ~HasSecondary(bits)
    /\ Len(ToHex(bits)) = 16
    /\ bmLast.op = "clear"
    /\ bmLast.de = BitmapBits

\* C20 (SpecBitmap): right after set_bit(de) with de in 65..128 both
\* is_set(de) and is_set(1) hold; set_bit(de) with de in 2..64 leaves bit 1
\* as it was.
C20_SecondaryIndicator ==
    bmLast.op = "set" =>
        /\ bmLast.de \in (PrimaryBits + 1)..BitmapBits =>
               IsSet(bits, bmLast.de) /\ IsSet(bits, 1)
        /\ bmLast.de \in 2..PrimaryBits =>
               IsSet(bits, 1) = bmLast.bit1

\* set_bit(128) on a bitmap whose bit 1 had been cleared
C20_Witness ==
    /\ bmLast = [op |-> "set", de |-> BitmapBits, bit1 |-> FALSE]
    /\ bits[PrimaryBits + 1]
    /\ bits[1]

\* C21 (SpecBitmap): for every bitmap that set_bit, clear_bit and
\* from_fields can produce, if to_hex emits the 8-byte form then bit 1 is
\* set in it only if a data element in 65..128 was added to the bitmap.
C21_PrimaryOnlyBitOne ==
    (bmOrigin # "from_hex" /\ Len(ToHex(bits)) = 16 /\ IsSet(bits, 1)) =>
        bmSecAdded

\* C22 (SpecBitmap): in every bitmap state that set_bit, clear_bit and
\* from_hex can produce, to_hex emits the 16-byte form only if bit 1 is set.
C22_SecondaryOnlyWithBitOne ==
    (bmOrigin # "from_fields" /\ Len(ToHex(bits)) = 32) => IsSet(bits, 1)

-----------------------------------------------------------------------------
(* Iso8583Message: set_field, remove_field, build_bitmap *)

\* Iso8583Message::remove_field
RemoveField(m, de) ==
    [m EXCEPT !.fields = [k \in (DOMAIN @) \ {de} |-> @[k]]]

\* Iso8583Message::build_bitmap
BuildBitmap(m) == [m EXCEPT !.bitmap = ToHex(FromFields(GetFieldNumbers(m)))]

\* the `de: u8` arguments of the model
FieldArgs == {0, 1, 2, 3, 64, 65, 128, 129}

\* what no action on the message touches
msgFrame == <<stanVars, txnVars, revVars, connVars, bitmapVars, codecVars,
              tlvVars, svcVars>>

MsgSetField(de, v) ==
    /\ imsg' = SetField(imsg, de, v)
    /\ imsgLast' = [op |-> "set_field", de |-> de]
    /\ UNCHANGED msgFrame

MsgRemoveField(de) ==
    /\ imsg' = RemoveField(imsg, de)
    /\ imsgLast' = [op |-> "remove_field", de |-> de]
    /\ UNCHANGED msgFrame

MsgBuildBitmap ==
    /\ imsg' = BuildBitmap(imsg)
    /\ imsgLast' = [op |-> "build_bitmap", de |-> 0]
    /\ UNCHANGED msgFrame

MsgInit ==
    /\ GenInit(0)
    /\ TxnIdle
    /\ RevIdle
    /\ ConnIdle
    /\ BitmapIdle
    /\ CodecIdle
    /\ TlvIdle
    /\ SvcIdle
    /\ imsg = NewIsoMessage(<<"0", "2", "0", "0">>)
    /\ imsgLast = [op |-> "none", de |-> 0]

MsgNext ==
    \/ \E de \in FieldArgs : MsgSetField(de, <<"0", "0">>)
    \/ \E de \in FieldArgs : MsgRemoveField(de)
    \/ MsgBuildBitmap

\* a message under any sequence of set_field, remove_field and build_bitmap
SpecMsg == MsgInit /\ [][MsgNext]_vars

\* the bitmap build_bitmap has stored, read back
StoredBitmap == FromHex(imsg.bitmap).bitmap

\* C23 (SpecMsg): for every message that set_field and remove_field calls
\* can produce, the bitmap build_bitmap materializes has bit n set iff field
\* n is present, and bit 1 set iff some field in 65..128 is present.
C23_BitmapMatchesFields ==
    imsgLast.op = "build_bitmap" =>
        /\ FromHex(imsg.bitmap).ok
        /\ \A n \in 2..BitmapBits :
               IsSet(StoredBitmap, n) <=> n \in GetFieldNumbers(imsg)
        /\ IsSet(StoredBitmap, 1) <=>
               \E n \in GetFieldNumbers(imsg) : n > PrimaryBits

-----------------------------------------------------------------------------
(* Text and bytes: as_bytes, from_utf8, from_utf8_lossy, parse::<usize>,
   format! with a width.  A String is a sequence of characters, a character
   a one-character string (or the name of one that has no glyph) *)

\* the characters U+0020..U+007E, in code order (the quotation mark, the
\* backslash and the grave accent by name)
Printable ==
    <<" ", "!", "QUOTE", "#", "$", "%", "&", "'", "(", ")", "*", "+", ",", "-",
      ".", "/", "0", "1", "2", "3", "4", "5", "6", "7", "8", "9", ":", ";",
      "<", "=", ">", "?", "@", "A", "B", "C", "D", "E", "F", "G", "H", "I",
      "J", "K", "L", "M", "N", "O", "P", "Q", "R", "S", "T", "U", "V", "W",
      "X", "Y", "Z", "[", "BACKSLASH", "]", "^", "_", "GRAVE", "a", "b", "c", "d", "e",
      "f", "g", "h", "i", "j", "k", "l", "m", "n", "o", "p", "q", "r", "s",
      "t", "u", "v", "w", "x", "y", "z", "{", "|", "}", "~">>

\* the characters U+0000..U+001F, by name
Control ==
    <<"NUL", "SOH", "STX", "ETX", "EOT", "ENQ", "ACK", "BEL", "BS", "HT",
      "LF", "VT", "FF", "CR", "SO", "SI", "DLE", "DC1", "DC2", "DC3", "DC4",
      "NAK", "SYN", "ETB", "CAN", "EM", "SUB", "ESC", "FS", "GS", "RS", "US">>

\* U+FFFD, which from_utf8_lossy puts for an invalid sequence
Replacement == "U+FFFD"

\* the character of an ASCII code
CharOf(b) ==
    IF b < 32 THEN Control[b + 1]
    ELSE IF b < 127 THEN Printable[b - 31]
    ELSE "DEL"

\* the ASCII code of a character
CodeOf(ch) ==
    IF \E i \in DOMAIN Printable : Printable[i] = ch
    THEN 31 + (CHOOSE i \in DOMAIN Printable : Printable[i] = ch)
    ELSE IF \E i \in DOMAIN Control : Control[i] = ch
    THEN (CHOOSE i \in DOMAIN Control : Control[i] = ch) - 1
    ELSE 127

\* str::as_bytes: one byte for an ASCII character, EF BF BD for U+FFFD
AsBytes(s) ==
    LET before(i) ==
            (i - 1) + 2 * Cardinality({j \in 1..(i - 1) : s[j] = Replacement})
    IN  [k \in 1..before(Len(s) + 1) |->
            LET i == CHOOSE j \in 1..Len(s) : before(j) < k /\ k <= before(j + 1)
            IN  IF s[i] = Replacement THEN <<239, 191, 189>>[k - before(i)]
                ELSE CodeOf(s[i])]

\* String::from_utf8_lossy.  The byte strings of the model hold no lead byte
\* of a well-formed multi-byte sequence, so every byte from 0x80 up is an
\* invalid sequence of its own and becomes one U+FFFD.
FromUtf8Lossy(bytes) ==
    [i \in 1..Len(bytes) |->
        IF bytes[i] < 128 THEN CharOf(bytes[i]) ELSE Replacement]

\* String::from_utf8, on the same byte strings: Err on any byte from 0x80 up
StrictFromUtf8(bytes) ==
    IF \E i \in 1..Len(bytes) : bytes[i] >= 128
    THEN [ok |-> FALSE, s |-> <<>>]
    ELSE [ok |-> TRUE, s |-> FromUtf8Lossy(bytes)]

\* the characters '0'..'9'
DecimalChars == {HexUpper[i] : i \in 1..10}

\* str::parse::<usize>: an optional '+', then one decimal digit or more
ParseUsize(s) ==
    LET body == IF Len(s) > 0 /\ s[1] = "+" THEN Tail(s) ELSE s IN
    IF Len(body) = 0 \/ \E i \in 1..Len(body) : body[i] \notin DecimalChars
    THEN [ok |-> FALSE, val |-> 0]
    ELSE [ok |-> TRUE,
          val |-> DigitsVal([i \in 1..Len(body) |-> HexVal(body[i])])]

\* format!("{:0w$}", n) of a usize: at least w digits, zeros on the left
FormatUsize(n, w) ==
    LET d == ZeroPad(Digits(n), w) IN [i \in 1..Len(d) |-> HexUpper[d[i] + 1]]

\* format!("{:0>width$}", value): '0' on the left up to width characters
PadZeroLeft(value, width) ==
    IF Len(value) >= width THEN value
    ELSE [i \in 1..(width - Len(value)) |-> "0"] \o value

\* format!("{:<width$}", value): ' ' on the right up to width characters
PadSpaceRight(value, width) ==
    IF Len(value) >= width THEN value
    ELSE value \o [i \in 1..(width - Len(value)) |-> " "]

\* str::trim: the white space at both ends goes
RECURSIVE TrimStr(_)
TrimStr(s) ==
    LET white == {" ", "HT", "LF", "VT", "FF", "CR"} IN
    IF s = <<>> THEN s
    ELSE IF Head(s) \in white THEN TrimStr(Tail(s))
    ELSE IF s[Len(s)] \in white THEN TrimStr(SubSeq(s, 1, Len(s) - 1))
    ELSE s

\* the least member of a set of numbers: the next of an ascending walk
Lowest(S) == CHOOSE x \in S : \A y \in S : x <= y

-----------------------------------------------------------------------------
(* Iso8583Parser: the format table, build_field and parse_field, build and
   parse *)

FixedNumeric(n) == [kind |-> "FixedNumeric", len |-> n]

FixedAlpha(n) == [kind |-> "FixedAlpha", len |-> n]

Llvar(n) == [kind |-> "Llvar", len |-> n]

Lllvar(n) == [kind |-> "Lllvar", len |-> n]

Binary(n) == [kind |-> "Binary", len |-> n]

\* Iso8583Parser::new : field_formats
FieldFormats ==
    (2 :> Llvar(19)) @@ (3 :> FixedNumeric(6)) @@ (4 :> FixedNumeric(12)) @@
    (7 :> FixedNumeric(10)) @@ (11 :> FixedNumeric(6)) @@
    (12 :> FixedNumeric(6)) @@ (13 :> FixedNumeric(4)) @@
    (14 :> FixedNumeric(4)) @@ (18 :> FixedNumeric(4)) @@
    (22 :> FixedNumeric(3)) @@ (23 :> FixedNumeric(3)) @@
    (25 :> FixedNumeric(2)) @@ (32 :> Llvar(11)) @@ (35 :> Llvar(37)) @@
    (37 :> FixedAlpha(12)) @@ (38 :> FixedAlpha(6)) @@ (39 :> FixedAlpha(2)) @@
    (41 :> FixedAlpha(8)) @@ (42 :> FixedAlpha(15)) @@ (43 :> FixedAlpha(40)) @@
    (49 :> FixedNumeric(3)) @@ (52 :> Binary(8)) @@ (54 :> Lllvar(120)) @@
    (55 :> Lllvar(999)) @@ (60 :> Lllvar(999)) @@ (61 :> Lllvar(999)) @@
    (62 :> Lllvar(999)) @@ (63 :> Lllvar(999)) @@ (64 :> Binary(8)) @@
    (70 :> FixedNumeric(3)) @@ (90 :> FixedNumeric(42)) @@
    (95 :> FixedAlpha(42)) @@ (102 :> Llvar(28)) @@ (103 :> Llvar(28)) @@
    (123 :> Lllvar(999)) @@ (127 :> Lllvar(999)) @@ (128 :> Binary(8))

\* what build_field returns on Err
BuildErr(e) == [ok |-> FALSE, bytes |-> <<>>, err |-> e]

\* what build_field returns on Ok
BuildOk(bytes) == [ok |-> TRUE, bytes |-> bytes, err |-> ""]

\* Iso8583Parser::build_field
BuildField(de, value) ==
    IF de \notin DOMAIN FieldFormats THEN BuildErr("InvalidField")
    ELSE LET format == FieldFormats[de] IN
    CASE format.kind = "FixedNumeric" ->
             LET padded == PadZeroLeft(value, format.len)
                 d == HexDecode(padded)
             IN  IF d.ok THEN BuildOk(d.bytes) ELSE BuildErr("HexError")
      [] format.kind = "FixedAlpha" ->
             BuildOk(AsBytes(PadSpaceRight(value, format.len)))
      [] format.kind = "Llvar" ->
             BuildOk(AsBytes(FormatUsize(Len(AsBytes(value)), 2))
                         \o AsBytes(value))
      [] format.kind = "Lllvar" ->
             LET d == HexDecode(value) IN
             IF d.ok
             THEN BuildOk(AsBytes(FormatUsize(Len(d.bytes), 3)) \o d.bytes)
             ELSE BuildErr("HexError")
      [] format.kind = "Binary" ->
             LET d == HexDecode(value) IN
             IF d.ok THEN BuildOk(d.bytes) ELSE BuildErr("HexError")

\* what parse_field returns on Err
FieldErr(e) == [kind |-> "Err", value |-> <<>>, read |-> 0, err |-> e]

\* what parse_field returns on Ok: the value and the bytes read
FieldOk(value, read) ==
    [kind |-> "Ok", value |-> value, read |-> read, err |-> ""]

\* a slice index past the end of the slice: the thread panics
FieldPanic ==
    [kind |-> "Panic", value |-> <<>>, read |-> 0,
     err |-> "range end index out of range"]

\* data[a..b], indices from 0 and b excluded
Slice(data, a, b) == SubSeq(data, a + 1, b)

\* parse_field, the Llvar and Lllvar arms, lines 185-245: prefix is the
\* number of length digits, checked the number of bytes the first test asks
\* for, text whether the value is text or hex
ParseVar(data, max_len, prefix, checked, text) ==
    IF Len(data) < checked THEN FieldErr("Missing length prefix")
    ELSE IF Len(data) < prefix THEN FieldPanic
    ELSE LET len == ParseUsize(FromUtf8Lossy(Slice(data, 0, prefix))) IN
         IF ~len.ok THEN FieldErr("Invalid length prefix")
         ELSE IF len.val > max_len THEN FieldErr("Length exceeds maximum")
         ELSE IF Len(data) < prefix + len.val THEN FieldErr("Insufficient data")
         ELSE LET body == Slice(data, prefix, prefix + len.val) IN
              FieldOk(IF text THEN FromUtf8Lossy(body)
                      ELSE HexEncodeUpper(body), prefix + len.val)

\* Iso8583Parser::parse_field
ParseField(data, de) ==
    IF de \notin DOMAIN FieldFormats THEN FieldErr("Unknown field format")
    ELSE LET format == FieldFormats[de] IN
    CASE format.kind = "FixedNumeric" ->
             LET bcd_len == (format.len + 1) \div 2 IN
             IF Len(data) < bcd_len
             THEN FieldErr("Insufficient data for fixed numeric field")
             ELSE LET value == HexEncodeUpper(Slice(data, 0, bcd_len)) IN
                  FieldOk(SubSeq(value, 1,
                                 IF format.len < Len(value) THEN format.len
                                 ELSE Len(value)), bcd_len)
      [] format.kind = "FixedAlpha" ->
             IF Len(data) < format.len
             THEN FieldErr("Insufficient data for fixed alpha field")
             ELSE FieldOk(FromUtf8Lossy(Slice(data, 0, format.len)),
                          format.len)
      [] format.kind = "Llvar" -> ParseVar(data, format.len, 2, 1, TRUE)
      [] format.kind = "Lllvar" -> ParseVar(data, format.len, 3, 3, FALSE)
      [] format.kind = "Binary" ->
             IF Len(data) < format.len
             THEN FieldErr("Insufficient data for binary field")
             ELSE FieldOk(HexEncodeUpper(Slice(data, 0, format.len)),
                          format.len)

\* Bitmap::get_set_bits: the set bits, which the callers walk in ascending
\* order
GetSetBits(b) == {de \in 1..BitmapBits : b[de]}

\* build, lines 274-283: the fields des of m in ascending order after acc
RECURSIVE BuildFields(_, _, _)
BuildFields(m, des, acc) ==
    IF des = {} THEN BuildOk(acc)
    ELSE LET de == Lowest(des) IN
         IF de = 1 THEN BuildFields(m, des \ {de}, acc)
         ELSE LET field_bytes == BuildField(de, m.fields[de]) IN
              IF ~field_bytes.ok THEN field_bytes
              ELSE BuildFields(m, des \ {de}, acc \o field_bytes.bytes)

\* Iso8583Parser::build: the result, and the message with its bitmap built
Build(message) ==
    LET m == BuildBitmap(message)
        bitmap_bytes == HexDecode(m.bitmap)
    IN  IF ~bitmap_bytes.ok
        THEN [ok |-> FALSE, hex |-> <<>>, err |-> "HexError", message |-> m]
        ELSE LET r == BuildFields(m, GetFieldNumbers(m),
                                  AsBytes(m.mti) \o bitmap_bytes.bytes)
             IN  [ok |-> r.ok, hex |-> HexEncodeUpper(r.bytes),
                  err |-> r.err, message |-> m]

\* what parse returns on Err: no message
ParseErr(e) == [kind |-> "Err", message |-> None, err |-> e]

\* parse, lines 140-148: the fields des from pos on, in ascending order
RECURSIVE ParseFields(_, _, _, _)
ParseFields(data, pos, des, message) ==
    IF des = {} THEN [kind |-> "Ok", message |-> Some(message), err |-> ""]
    ELSE LET de == Lowest(des) IN
         IF de = 1 THEN ParseFields(data, pos, des \ {de}, message)
         ELSE LET f == ParseField(Slice(data, pos, Len(data)), de) IN
              IF f.kind # "Ok"
              THEN [kind |-> f.kind, message |-> None, err |-> f.err]
              ELSE ParseFields(data, pos + f.read, des \ {de},
                               SetField(message, de, f.value))

\* Iso8583Parser::parse
Parse(hex_data) ==
    LET d == HexDecode(StripSpaces(TrimStr(hex_data)))
        data == d.bytes
    IN
    IF ~d.ok THEN ParseErr("HexError")
    ELSE IF Len(data) < 12 THEN ParseErr("InvalidLength")
    ELSE LET mti == StrictFromUtf8(Slice(data, 0, 4)) IN
    IF ~mti.ok THEN ParseErr("InvalidMti")
    ELSE LET primary_bitmap == Slice(data, 4, 12)
             has_secondary == BitOfByte(primary_bitmap[1], 7)
         IN
    IF has_secondary /\ Len(data) < 12 + 8 THEN ParseErr("InvalidBitmap")
    ELSE LET pos == IF has_secondary THEN 20 ELSE 12
             bitmap_hex == HexEncodeUpper(Slice(data, 4, pos))
             bitmap == FromHex(bitmap_hex)
         IN
    IF ~bitmap.ok THEN ParseErr("InvalidBitmap")
    ELSE ParseFields(data, pos, GetSetBits(bitmap.bitmap),
                     [NewIsoMessage(mti.s) EXCEPT !.bitmap = bitmap_hex])

\* the digits 1234567890... up to n characters
DigitRun(n) == [i \in 1..n |-> HexUpper[(i % 10) + 1]]

\* the letters ABCDEF... up to n characters
AlphaRun(n) == [i \in 1..n |-> Printable[34 + (i % 26)]]

\* the values the services put into a request
\* (iso8583_transaction_service.rs and response_handler.rs), by data element
SampleFields ==
    (2 :> <<"4", "1", "1", "1", "1", "1", "1", "1",
            "1", "1", "1", "1", "1", "1", "1", "1">>) @@
    (3 :> <<"0", "0", "0", "0", "0", "0">>) @@
    (4 :> <<"0", "0", "0", "0", "0", "0", "1", "0", "0", "0", "0", "0">>) @@
    (11 :> <<"1", "2", "3", "4", "5", "6">>) @@
    (41 :> <<"T", "E", "R", "M", "0", "0", "0", "1">>) @@
    (49 :> <<"7", "0", "4">>) @@
    (55 :> HexEncodeUpper(<<159, 2, 6, 0, 0, 0, 1, 0, 0>>)) @@
    (102 :> <<"1", "2", "3", "4", "5">>)

\* the values build_field is given for a data element
FieldValues(de) ==
    (IF de \in DOMAIN SampleFields THEN {SampleFields[de]} ELSE {}) \cup
    (IF de \notin DOMAIN FieldFormats THEN {<<"1">>}
     ELSE LET format == FieldFormats[de] IN
     CASE format.kind = "FixedNumeric" ->
              {DigitRun(format.len), [i \in 1..format.len |-> "0"], <<"7">>}
       [] format.kind = "FixedAlpha" -> {AlphaRun(format.len), <<"O", "K">>}
       [] format.kind = "Llvar" ->
              {<<>>, DigitRun(format.len), <<"A", "b", " ", "1">>}
       [] format.kind = "Lllvar" ->
              {<<>>, HexEncodeUpper(<<159, 38, 1, 0>>)} \cup
              (IF format.len <= 120
               THEN {HexEncodeUpper([i \in 1..format.len |-> i])} ELSE {})
       [] format.kind = "Binary" ->
              {HexEncodeUpper([i \in 1..format.len |-> 17 * i]),
               <<"A", "B">>})

\* the data elements build_field is given: the table and one outside it
FieldCallDes == DOMAIN FieldFormats \cup {5}

\* the message of the sample values of the data elements S
SampleMessage(S) ==
    [NewIsoMessage(<<"0", "2", "0", "0">>) EXCEPT
        !.fields = [de \in S |-> SampleFields[de]]]

\* a message on the wire, every byte of it given: the MTI, the bitmap of
\* the data elements des and what follows the bitmap
Crafted(mti, des, body) ==
    HexEncodeUpper(AsBytes(mti) \o HexDecode(ToHex(FromFields(des))).bytes
                       \o body)

\* hex cut short after each whole byte, from none to all but the last
Truncations(hex) == {SubSeq(hex, 1, 2 * k) : k \in 0..((Len(hex) \div 2) - 1)}

\* the messages whose wire form is cut short
TruncSources == {{2, 3, 41}, {3, 4, 11}, {2, 55, 102}, {55}, {41, 102}}

\* what build makes of a sample message
WireOf(S) == Build(SampleMessage(S)).hex

TruncatedInputs == UNION {Truncations(WireOf(S)) : S \in TruncSources}

\* inputs with a stated length above the maximum of the field, the bytes of
\* the stated length present or not
OverMaxInputs ==
    LET mti == <<"0", "2", "0", "0">> IN
    {Crafted(mti, {2}, AsBytes(<<"2", "0">>) \o [i \in 1..20 |-> 49]),
     Crafted(mti, {2}, AsBytes(<<"9", "9">>)),
     Crafted(mti, {32}, AsBytes(<<"1", "2">>) \o [i \in 1..12 |-> 49]),
     Crafted(mti, {3, 102},
             <<0, 0, 0>> \o AsBytes(<<"2", "9">>) \o [i \in 1..29 |-> 65]),
     Crafted(mti, {54}, AsBytes(<<"1", "2", "1">>) \o [i \in 1..121 |-> 0]),
     Crafted(mti, {54}, AsBytes(<<"9", "9", "9">>))}

\* inputs whose bitmap names a data element the table has no entry for
UnknownDeInputs ==
    LET mti == <<"0", "2", "0", "0">> IN
    {Crafted(mti, {5}, <<>>),
     Crafted(mti, {5}, <<1, 2, 3, 4>>),
     Crafted(mti, {3, 5}, <<0, 0, 0, 1, 2>>),
     Crafted(mti, {3, 4, 6}, <<0, 0, 0, 0, 0, 0, 16, 0, 0, 9>>),
     Crafted(mti, {2, 5}, AsBytes(<<"0", "2", "4", "1">>) \o <<7>>),
     Crafted(mti, {2, 5}, AsBytes(<<"0">>)),
     Crafted(mti, {5, 11}, <<18, 52, 86>>),
     Crafted(mti, {3, 65}, <<0, 0, 0>>),
     Crafted(mti, {126, 128}, <<1, 2, 3, 4, 5, 6, 7, 8>>)}

\* whole inputs: as built, with white space, in lower case, and broken ones
WholeInputs ==
    {WireOf(S) : S \in TruncSources} \cup
    {<<" ">> \o WireOf({3, 4, 11}) \o <<"LF">>,
     <<"3", "0", " ", "3", "2">> \o Tail(Tail(Tail(Tail(WireOf({41, 102}))))),
     [i \in 1..Len(WireOf({55})) |->
         LET v == HexVal(WireOf({55})[i]) IN HexLower[v + 1]],
     Tail(WireOf({3, 4, 11})),
     <<"Z", "Z">> \o WireOf({55}),
     HexEncodeUpper(<<48, 128, 48, 48>> \o [i \in 1..8 |-> 0]),
     Crafted(<<"0", "2", "0", "0">>, {2}, AsBytes(<<"A", "1", "x">>))}

ParseInputs ==
    TruncatedInputs \cup OverMaxInputs \cup UnknownDeInputs \cup WholeInputs

\* what no Iso8583Parser call touches
codecFrame == <<stanVars, txnVars, revVars, connVars, bitmapVars, msgVars,
                tlvVars, svcVars>>

\* the calls of the model: the function and its arguments
FieldCalls ==
    UNION {{[op |-> "call", fn |-> "field", de |-> de, value |-> value] :
                value \in FieldValues(de)} : de \in FieldCallDes}

\* messages on which set_field(1, v) was called as well
WithFieldOne ==
    {SetField(SampleMessage(S), 1, <<"0", "0">>) : S \in SUBSET {2, 3, 41, 102}}

BuildCalls ==
    {[op |-> "call", fn |-> "build", message |-> m] :
        m \in {SampleMessage(S) : S \in SUBSET DOMAIN SampleFields}
                 \cup WithFieldOne}

ParseCalls ==
    {[op |-> "call", fn |-> "parse", input |-> hex_data] :
        hex_data \in ParseInputs}

\* build_field on a value, then parse_field on the bytes it made
FieldRoundTrip ==
    /\ codec.op = "call" /\ codec.fn = "field"
    /\ LET built == BuildField(codec.de, codec.value) IN
       codec' = [op |-> "field", de |-> codec.de, value |-> codec.value,
                 built |-> built,
                 parsed |-> IF built.ok THEN ParseField(built.bytes, codec.de)
                            ELSE FieldErr("not built")]
    /\ UNCHANGED codecFrame

\* build on a message, then parse on the string it made
BuildThenParse ==
    /\ codec.op = "call" /\ codec.fn = "build"
    /\ LET out == Build(codec.message) IN
       codec' = [op |-> "build", message |-> codec.message, out |-> out,
                 back |-> IF out.ok THEN Parse(out.hex)
                          ELSE ParseErr("not built")]
    /\ UNCHANGED codecFrame

\* parse on an input
ParseCall ==
    /\ codec.op = "call" /\ codec.fn = "parse"
    /\ codec' = [op |-> "parse", input |-> codec.input,
                 res |-> Parse(codec.input)]
    /\ UNCHANGED codecFrame

\* the arguments of one call are drawn
CodecInit ==
    /\ GenInit(0)
    /\ TxnIdle
    /\ RevIdle
    /\ ConnIdle
    /\ BitmapIdle
    /\ MsgIdle
    /\ TlvIdle
    /\ SvcIdle
    /\ codec \in FieldCalls \cup BuildCalls \cup ParseCalls

CodecNext ==
    \/ FieldRoundTrip
    \/ BuildThenParse
    \/ ParseCall

\* the parser on one call
SpecCodec == CodecInit /\ [][CodecNext]_vars

\* value is within the length and the character set of the format of de
ValidValue(de, value) ==
    /\ de \in DOMAIN FieldFormats
    /\ LET format == FieldFormats[de]
           upperHex == {HexUpper[i] : i \in 1..16}
           text == {Printable[i] : i \in DOMAIN Printable}
       IN
       CASE format.kind = "FixedNumeric" ->
                /\ Len(value) = format.len
                /\ \A i \in 1..Len(value) : value[i] \in DecimalChars
         [] format.kind = "FixedAlpha" ->
                /\ Len(value) = format.len
                /\ \A i \in 1..Len(value) : value[i] \in text
         [] format.kind = "Llvar" ->
                /\ Len(value) <= format.len
                /\ \A i \in 1..Len(value) : value[i] \in text
         [] format.kind = "Lllvar" ->
                /\ Len(value) % 2 = 0
                /\ Len(value) \div 2 <= format.len
                /\ \A i \in 1..Len(value) : value[i] \in upperHex
         [] format.kind = "Binary" ->
                /\ Len(value) = 2 * format.len
                /\ \A i \in 1..Len(value) : value[i] \in upperHex

\* C24 (SpecCodec): for each field format and every value within the
\* format's length and character set, parse_field on the bytes build_field
\* made of the value reads exactly those bytes and returns the value.
C24_FieldRoundTrip ==
    (codec.op = "field" /\ ValidValue(codec.de, codec.value)) =>
        /\ codec.built.ok
        /\ codec.parsed.kind = "Ok"
        /\ codec.parsed.read = Len(codec.built.bytes)
        /\ codec.parsed.value = codec.value

\* C25 (SpecCodec): for every FixedNumeric(n) data element, the odd n = 3 of
\* DE22, DE23, DE49 and DE70 included, build_field on a decimal value of at
\* most n digits succeeds and makes ceil(n/2) bytes that hold the value
\* padded with zeros on the left to n digits.
C25_FixedNumericEncodes ==
    (/\ codec.op = "field"
     /\ codec.de \in DOMAIN FieldFormats
     /\ FieldFormats[codec.de].kind = "FixedNumeric"
     /\ Len(codec.value) <= FieldFormats[codec.de].len
     /\ \A i \in 1..Len(codec.value) : codec.value[i] \in DecimalChars) =>
        LET n == FieldFormats[codec.de].len
            digits == HexEncodeUpper(codec.built.bytes)
        IN  /\ codec.built.ok
            /\ Len(codec.built.bytes) = (n + 1) \div 2
            /\ \E k \in 0..(Len(digits) - n) :
                   SubSeq(digits, k + 1, k + n) = PadZeroLeft(codec.value, n)

\* the encodings of the fields des of m, in ascending order
RECURSIVE FieldsOf(_, _)
FieldsOf(m, des) ==
    IF des = {} THEN <<>>
    ELSE BuildField(Lowest(des), m.fields[Lowest(des)]).bytes
             \o FieldsOf(m, des \ {Lowest(des)})

\* C26 (SpecCodec): for every message whose fields are data elements of
\* 2..128 with a format and a valid value, build gives the MTI, the bitmap
\* and the encoding of each field in ascending order, and parse on that
\* gives a message with the same MTI and the same fields.
C26_MessageRoundTrip ==
    (/\ codec.op = "build"
     /\ \A de \in DOMAIN codec.message.fields :
            de >= 2 /\ ValidValue(de, codec.message.fields[de])) =>
        /\ codec.out.ok
        /\ codec.out.hex =
               HexEncodeUpper(AsBytes(codec.message.mti)) \o
               ToHex(FromFields(DOMAIN codec.message.fields)) \o
               HexEncodeUpper(FieldsOf(codec.message, DOMAIN codec.message.fields))
        /\ codec.back.kind = "Ok"
        /\ codec.back.message[1].mti = codec.message.mti
        /\ codec.back.message[1].fields = codec.message.fields

\* the data elements the bitmap of an input names, none when the input has
\* no whole bitmap
NamedByBitmap(hex_data) ==
    LET d == HexDecode(StripSpaces(TrimStr(hex_data))) IN
    IF ~d.ok \/ Len(d.bytes) < 12 THEN {}
    ELSE IF d.bytes[5] >= 128 /\ Len(d.bytes) < 20 THEN {}
    ELSE GetSetBits(FromHex(HexEncodeUpper(
             Slice(d.bytes, 4, IF d.bytes[5] >= 128 THEN 20 ELSE 12))).bitmap)

\* C27 (SpecCodec): if the bitmap of an input names a data element other
\* than 1 that has no format, parse returns an error and no message, also
\* when every field before it was read.
C27_UnknownFieldFatal ==
    (/\ codec.op = "parse"
     /\ \E de \in NamedByBitmap(codec.input) :
            de # 1 /\ de \notin DOMAIN FieldFormats) =>
        /\ codec.res.kind = "Err"
        /\ codec.res.message = None

\* C28 (SpecCodec): for every input cut short at a byte, and every input
\* with an LLVAR or LLLVAR length above the maximum, parse returns an error:
\* no message in part, no abort on an index out of bounds.
C28_TruncationIsError ==
    (/\ codec.op = "parse"
     /\ codec.input \in TruncatedInputs \cup OverMaxInputs) =>
        /\ codec.res.kind = "Err"
        /\ codec.res.message = None

-----------------------------------------------------------------------------
(* TlvParser: hex_to_bytes, parse_tag, parse_length, parse_bytes_to_vec *)

\* the most elements a stream of the model holds
MaxTlvElems == 2

\* u8::from_str_radix(pair, 16): two hex digits, or '+' and one hex digit
PairVal(a, b) ==
    IF HexVal(a) >= 0 /\ HexVal(b) >= 0 THEN 16 * HexVal(a) + HexVal(b)
    ELSE IF a = "+" /\ HexVal(b) >= 0 THEN HexVal(b)
    ELSE -1

\* TlvParser::hex_to_bytes
HexToBytes(hex_string) ==
    LET hex == StripSpaces(TrimStr(hex_string)) IN
    IF Len(hex) % 2 # 0
    THEN [ok |-> FALSE, bytes |-> <<>>, err |-> "InvalidHexLength"]
    ELSE IF \E k \in 1..(Len(hex) \div 2) : PairVal(hex[2 * k - 1], hex[2 * k]) < 0
    THEN [ok |-> FALSE, bytes |-> <<>>, err |-> "InvalidHexChar"]
    ELSE [ok |-> TRUE, err |-> "",
          bytes |-> [k \in 1..(Len(hex) \div 2) |->
                        PairVal(hex[2 * k - 1], hex[2 * k])]]

\* a faulty variant of ParseTag: every tag is taken to be one byte
ParseTag_OneByte(bytes) ==
    IF bytes = <<>> THEN [ok |-> FALSE, tag |-> <<>>, len |-> 0]
    ELSE [ok |-> TRUE, tag |-> HexEncodeUpper(<<bytes[1]>>), len |-> 1]

\* TlvParser::parse_tag: the tag in upper hex and the bytes it takes
ParseTag(bytes) ==
    IF bytes = <<>> THEN [ok |-> FALSE, tag |-> <<>>, len |-> 0]
    ELSE IF bytes[1] % 32 = 31
    THEN LET last == {i \in 2..Len(bytes) : bytes[i] < 128}
             tag_len == IF last = {} THEN Len(bytes) ELSE Lowest(last)
         IN  [ok |-> TRUE, tag |-> HexEncodeUpper(SubSeq(bytes, 1, tag_len)),
              len |-> tag_len]
    ELSE [ok |-> TRUE, tag |-> HexEncodeUpper(<<bytes[1]>>), len |-> 1]

\* what parse_length returns on Err
LengthErr(e) == [ok |-> FALSE, length |-> 0, len_bytes |-> 0, err |-> e]

\* what parse_length returns on Ok: the length and the bytes it takes
LengthOk(length, len_bytes) ==
    [ok |-> TRUE, length |-> length, len_bytes |-> len_bytes, err |-> ""]

\* a faulty variant of ParseLength: the 0x81 form is taken without a look at
\* how many bytes there are
ParseLength_Unchecked(bytes) ==
    IF bytes = <<>> THEN LengthErr("UnexpectedEndOfData")
    ELSE IF bytes[1] <= 127 THEN LengthOk(bytes[1], 1)
    ELSE IF bytes[1] = 129
    THEN LengthOk(IF Len(bytes) < 2 THEN 0 ELSE bytes[2], 2)
    ELSE IF bytes[1] = 130
    THEN IF Len(bytes) < 3 THEN LengthErr("UnexpectedEndOfData")
         ELSE LengthOk(bytes[2] * 256 + bytes[3], 3)
    ELSE IF bytes[1] = 131
    THEN IF Len(bytes) < 4 THEN LengthErr("UnexpectedEndOfData")
         ELSE LengthOk(bytes[2] * 65536 + bytes[3] * 256 + bytes[4], 4)
    ELSE LengthErr("InvalidLengthEncoding")

\* TlvParser::parse_length
ParseLength(bytes) ==
    IF bytes = <<>> THEN LengthErr("UnexpectedEndOfData")
    ELSE IF bytes[1] <= 127 THEN LengthOk(bytes[1], 1)
    ELSE IF bytes[1] = 129
    THEN IF Len(bytes) < 2 THEN LengthErr("UnexpectedEndOfData")
         ELSE LengthOk(bytes[2], 2)
    ELSE IF bytes[1] = 130
    THEN IF Len(bytes) < 3 THEN LengthErr("UnexpectedEndOfData")
         ELSE LengthOk(bytes[2] * 256 + bytes[3], 3)
    ELSE IF bytes[1] = 131
    THEN IF Len(bytes) < 4 THEN LengthErr("UnexpectedEndOfData")
         ELSE LengthOk(bytes[2] * 65536 + bytes[3] * 256 + bytes[4], 4)
    ELSE LengthErr("InvalidLengthEncoding")

\* a faulty variant of Salvaged: the bytes that remain are dropped
Salvaged_Empty(bytes, pos, tag) ==
    [tag |-> tag, length |-> 0, value |-> <<>>]

\* parse_bytes_to_vec, lines 118-124: the element made of what remains
Salvaged(bytes, pos, tag) ==
    LET available == Len(bytes) - pos IN
    [tag |-> tag, length |-> available,
     value |-> Slice(bytes, pos, pos + available)]

\* one pass of the loop of parse_bytes_to_vec: pos at its start, the cursor
\* when the pass ends, and the bounds bytes[lo..hi] of the value slice it took
\* (lo = hi = the cursor when it took none)
Pass(pos, cursor, lo, hi) == [pos |-> pos, cursor |-> cursor, lo |-> lo, hi |-> hi]

\* parse_bytes_to_vec, lines 96-136: the loop from pos on; passes is the
\* record of the passes made so far
RECURSIVE ParseLoop(_, _, _, _)
ParseLoop(bytes, pos, elements, passes) ==
    IF pos >= Len(bytes)
    THEN [ok |-> TRUE, elements |-> elements, err |-> "", passes |-> passes]
    ELSE LET t == ParseTag(Slice(bytes, pos, Len(bytes)))
             pos1 == pos + t.len
         IN
    IF ~t.ok
    THEN [ok |-> FALSE, elements |-> <<>>, err |-> "UnexpectedEndOfData",
          passes |-> Append(passes, Pass(pos, pos, pos, pos))]
    ELSE IF pos1 >= Len(bytes)
    THEN [ok |-> TRUE, elements |-> elements, err |-> "",
          passes |-> Append(passes, Pass(pos, pos1, pos1, pos1))]
    ELSE LET l == ParseLength(Slice(bytes, pos1, Len(bytes)))
             pos2 == pos1 + l.len_bytes
         IN
    IF ~l.ok
    THEN [ok |-> FALSE, elements |-> <<>>, err |-> l.err,
          passes |-> Append(passes, Pass(pos, pos1, pos1, pos1))]
    ELSE IF pos2 + l.length > Len(bytes)
    THEN [ok |-> TRUE, err |-> "",
          elements |-> Append(elements, Salvaged(bytes, pos2, t.tag)),
          passes |-> Append(passes,
                            Pass(pos, pos2, pos2, pos2 + (Len(bytes) - pos2)))]
    ELSE ParseLoop(bytes, pos2 + l.length,
                   Append(elements,
                          [tag |-> t.tag, length |-> l.length,
                           value |-> Slice(bytes, pos2, pos2 + l.length)]),
                   Append(passes,
                          Pass(pos, pos2 + l.length, pos2, pos2 + l.length)))

\* TlvParser::parse_bytes_to_vec
ParseBytesToVec(bytes) == ParseLoop(bytes, 0, <<>>, <<>>)

\* TlvParser::parse_to_vec
ParseToVec(hex_string) ==
    LET bytes == HexToBytes(hex_string) IN
    IF ~bytes.ok
    THEN [ok |-> FALSE, elements |-> <<>>, err |-> bytes.err, passes |-> <<>>]
    ELSE ParseBytesToVec(bytes.bytes)

\* the length n on the wire in one of the forms parse_length reads: one
\* byte, or 0x81, 0x82, 0x83 and one, two, three bytes
EncodeLength(form, n) ==
    CASE form = "short" -> <<n>>
      [] form = "81" -> <<129, n>>
      [] form = "82" -> <<130, n \div 256, n % 256>>
      [] form = "83" -> <<131, n \div 65536, (n \div 256) % 256, n % 256>>

\* an element on the wire: tag, length, value
EncodeElem(e) == e.tag \o EncodeLength(e.form, Len(e.value)) \o e.value

\* the elements of the model's streams: tags of one, two and three bytes,
\* every length form, values from none to 300 bytes
TlvPool ==
    {[tag |-> <<154>>, form |-> "short", value |-> <<37, 1, 1>>],
     [tag |-> <<159, 2>>, form |-> "short", value |-> <<0, 0, 0, 1, 0, 0>>],
     [tag |-> <<95, 42>>, form |-> "81", value |-> <<7, 4>>],
     [tag |-> <<223, 129, 1>>, form |-> "short", value |-> <<>>],
     [tag |-> <<130>>, form |-> "82", value |-> <<25, 128>>],
     [tag |-> <<159, 38>>, form |-> "83",
      value |-> <<18, 52, 86, 120, 154, 188, 222, 240>>],
     [tag |-> <<112>>, form |-> "81", value |-> [i \in 1..130 |-> i]],
     [tag |-> <<119>>, form |-> "82", value |-> [i \in 1..300 |-> i % 256]]}

\* the streams of up to n elements of the pool
RECURSIVE StreamsUpTo(_)
StreamsUpTo(n) ==
    IF n = 0 THEN {<<>>}
    ELSE StreamsUpTo(n - 1) \cup
         {EncodeElem(e) \o s : e \in TlvPool, s \in StreamsUpTo(n - 1)}

\* hex in lower case
LowerHex(hex) == [i \in 1..Len(hex) |-> HexLower[HexVal(hex[i]) + 1]]

\* the well-formed streams as parse_to_vec is given them: upper hex, and a
\* few in lower hex and with white space
ValidStreams ==
    {HexEncodeUpper(s) : s \in StreamsUpTo(MaxTlvElems)} \cup
    {LowerHex(HexEncodeUpper(EncodeElem(e))) : e \in TlvPool} \cup
    {<<" ">> \o HexEncodeUpper(EncodeElem(e)) \o <<" ", "LF">> : e \in TlvPool}

\* an element whose stated length is more than what follows it: the
\* elements before it, its tag, its length form, the length it states and
\* the bytes that follow
OverlongLast ==
    {[tag |-> <<154>>, form |-> "short", declared |-> 3, rest |-> <<37>>],
     [tag |-> <<159, 2>>, form |-> "short", declared |-> 6, rest |-> <<>>],
     [tag |-> <<95, 42>>, form |-> "81", declared |-> 2, rest |-> <<7>>],
     [tag |-> <<112>>, form |-> "81", declared |-> 200,
      rest |-> <<159, 2, 1, 0, 154>>],
     [tag |-> <<119>>, form |-> "82", declared |-> 300,
      rest |-> [i \in 1..299 |-> 255]],
     [tag |-> <<223, 129, 1>>, form |-> "83", declared |-> 65536,
      rest |-> <<1, 2, 3>>]}

OverlongCases ==
    {[before |-> s, last |-> l] :
        s \in StreamsUpTo(MaxTlvElems - 1), l \in OverlongLast}

\* an overlong case on the wire
OverlongBytes(c) ==
    c.before \o c.last.tag \o EncodeLength(c.last.form, c.last.declared)
        \o c.last.rest

OverlongStreams == {HexEncodeUpper(OverlongBytes(c)) : c \in OverlongCases}

\* inputs that are no stream: an odd length, no hex, a signed pair, a tag
\* alone, a tag that never ends, a length cut short, a length form that is
\* not read
BrokenStreams ==
    {<<"9", "A", "0">>, <<"9", "A", "0", "G">>, <<"+", "F", "0", "0">>,
     HexEncodeUpper(<<154>>), HexEncodeUpper(<<159, 130, 129>>),
     HexEncodeUpper(<<154, 130, 1>>), HexEncodeUpper(<<154, 129>>),
     HexEncodeUpper(<<154, 131, 0, 0>>), HexEncodeUpper(<<154, 128, 0, 0>>),
     HexEncodeUpper(<<154, 132, 0, 0, 0, 1, 5>>),
     HexEncodeUpper(<<154, 1, 5, 159>>)}

\* streams malformed otherwise than by a value cut short, alone and after
\* a whole element: a tag and no length, a tag of several bytes whose last
\* byte never comes, a long length form without all its bytes, a first
\* length byte that is no form parse_length reads
MalformedTails ==
    {<<154>>, <<159, 2>>, <<159, 130, 129>>, <<223, 129>>,
     <<154, 129>>, <<154, 130, 1>>, <<159, 2, 131, 0, 0>>,
     <<154, 128, 0, 0>>, <<154, 132, 0, 0, 0, 1, 5>>, <<154, 255>>}

MalformedStreams ==
    {HexEncodeUpper(s \o t) :
        s \in StreamsUpTo(MaxTlvElems - 1), t \in MalformedTails}

TlvInputs ==
    ValidStreams \cup OverlongStreams \cup BrokenStreams \cup MalformedStreams

\* what no TlvParser call touches
tlvFrame == <<stanVars, txnVars, revVars, connVars, bitmapVars, msgVars,
              codecVars, svcVars>>

\* parse_to_vec on an input
ParseToVecCall ==
    /\ tlv.op = "call"
    /\ tlv' = [op |-> "parse_to_vec", input |-> tlv.input,
               res |-> ParseToVec(tlv.input)]
    /\ UNCHANGED tlvFrame

\* the argument of one call is drawn
TlvInit ==
    /\ GenInit(0)
    /\ TxnIdle
    /\ RevIdle
    /\ ConnIdle
    /\ BitmapIdle
    /\ MsgIdle
    /\ CodecIdle
    /\ SvcIdle
    /\ tlv \in {[op |-> "call", input |-> hex_string] : hex_string \in TlvInputs}

TlvNext == ParseToVecCall

\* the TLV parser on one call
SpecTlv == TlvInit /\ [][TlvNext]_vars

\* the ways BER writes the length n
LengthForms(n) ==
    (IF n < 128 THEN {EncodeLength("short", n)} ELSE {}) \cup
    (IF n < 256 THEN {EncodeLength("81", n)} ELSE {}) \cup
    (IF n < 65536 THEN {EncodeLength("82", n)} ELSE {}) \cup
    {EncodeLength("83", n)}

\* bytes is the elements es one after the other, each as its tag bytes, a
\* length encoding of its length and its value bytes
RECURSIVE Reproduces(_, _)
Reproduces(es, bytes) ==
    IF es = <<>> THEN bytes = <<>>
    ELSE LET e == Head(es)
             t == HexDecode(e.tag)
         IN  /\ t.ok
             /\ e.length = Len(e.value)
             /\ \E l \in LengthForms(e.length) :
                    LET enc == t.bytes \o l \o e.value IN
                    /\ Len(enc) <= Len(bytes)
                    /\ SubSeq(bytes, 1, Len(enc)) = enc
                    /\ Reproduces(Tail(es),
                                  SubSeq(bytes, Len(enc) + 1, Len(bytes)))

\* C29 (SpecTlv): for every valid BER-TLV stream, with tags of one byte
\* and more and lengths in the short form and the 0x81, 0x82, 0x83 forms,
\* parse_to_vec returns the elements in stream order, and the tag bytes,
\* a length encoding and the value bytes of each, put one after the other,
\* are the stream again, no byte dropped and none twice.
C29_TlvReproducesStream ==
    (tlv.op = "parse_to_vec" /\ tlv.input \in ValidStreams) =>
        /\ tlv.res.ok
        /\ Reproduces(tlv.res.elements, HexToBytes(tlv.input).bytes)

\* a stream of two elements, a tag of more than one byte and a long length
\* form among them, has been parsed
C29_Witness ==
    /\ tlv.op = "parse_to_vec"
    /\ tlv.input \in ValidStreams
    /\ tlv.res.ok
    /\ Len(tlv.res.elements) = 2
    /\ Len(tlv.res.elements[1].tag) > 2
    /\ tlv.res.elements[2].length > 255

\* C30 (SpecTlv): when the length an element states is more than the bytes
\* that remain, the parser returns success: the elements before it as they
\* are parsed without it, then one last element whose value is exactly the
\* bytes that remain, and nothing after it.
C30_LenientTail ==
    \A c \in OverlongCases :
        (tlv.op = "parse_to_vec" /\ tlv.input = HexEncodeUpper(OverlongBytes(c)))
        => /\ tlv.res.ok
           /\ LET before == ParseBytesToVec(c.before).elements IN
              /\ Len(tlv.res.elements) = Len(before) + 1
              /\ SubSeq(tlv.res.elements, 1, Len(before)) = before
              /\ tlv.res.elements[Len(before) + 1].tag
                     = HexEncodeUpper(c.last.tag)
              /\ tlv.res.elements[Len(before) + 1].value = c.last.rest

\* an element after another states 200 bytes and five remain
C30_Witness ==
    /\ tlv.op = "parse_to_vec"
    /\ tlv.res.ok
    /\ Len(tlv.res.elements) = 2
    /\ \E c \in OverlongCases :
           /\ tlv.input = HexEncodeUpper(OverlongBytes(c))
           /\ c.last.declared = 200
           /\ Len(c.before) > 0
           /\ tlv.res.elements[2].value = c.last.rest
           /\ Len(c.last.rest) = 5

\* C31 (SpecTlv): a value cut short is the only malformation the TLV
\* parser recovers from: a stream that ends after a tag, a tag of several
\* bytes that never ends, a long length form without its bytes and a first
\* length byte outside <= 0x7F, 0x81, 0x82, 0x83 each give an error and no
\* list of elements.
C31_OtherMalformationsFail ==
    (tlv.op = "parse_to_vec" /\ tlv.input \in MalformedStreams) =>
        /\ ~tlv.res.ok
        /\ tlv.res.elements = <<>>

-----------------------------------------------------------------------------
(* ResponseCode by variant, ResponseHandler::parse_response, the mock
   responder and build_iso_message, one call at a time *)

\* the variants of ResponseCode
ResponseCodeNames ==
    {"Approved", "DoNotHonor", "InvalidTransaction", "InvalidAmount",
     "InvalidCard", "FormatError", "InsufficientFunds", "ExpiredCard",
     "IncorrectPin", "NotPermitted", "NotPermittedTerminal", "ExceedsLimit",
     "IssuerInoperative", "SystemMalfunction"}

\* ResponseCode::as_str, by variant
VariantAsStr(c) ==
    CASE c = "Approved"             -> "00"
      [] c = "DoNotHonor"           -> "05"
      [] c = "InvalidTransaction"   -> "12"
      [] c = "InvalidAmount"        -> "13"
      [] c = "InvalidCard"          -> "14"
      [] c = "FormatError"          -> "30"
      [] c = "InsufficientFunds"    -> "51"
      [] c = "ExpiredCard"          -> "54"
      [] c = "IncorrectPin"         -> "55"
      [] c = "NotPermitted"         -> "57"
      [] c = "NotPermittedTerminal" -> "58"
      [] c = "ExceedsLimit"         -> "61"
      [] c = "IssuerInoperative"    -> "91"
      [] c = "SystemMalfunction"    -> "96"

\* a faulty variant of VariantFromStr: "96" is not known
VariantFromStr_NoMalfunction(s) ==
    CASE s = "00" -> Some("Approved")
      [] s = "05" -> Some("DoNotHonor")
      [] s = "12" -> Some("InvalidTransaction")
      [] s = "13" -> Some("InvalidAmount")
      [] s = "14" -> Some("InvalidCard")
      [] s = "30" -> Some("FormatError")
      [] s = "51" -> Some("InsufficientFunds")
      [] s = "54" -> Some("ExpiredCard")
      [] s = "55" -> Some("IncorrectPin")
      [] s = "57" -> Some("NotPermitted")
      [] s = "58" -> Some("NotPermittedTerminal")
      [] s = "61" -> Some("ExceedsLimit")
      [] s = "91" -> Some("IssuerInoperative")
      [] OTHER    -> None

\* ResponseCode::from_str : Option<ResponseCode>, by variant
VariantFromStr(s) ==
    CASE s = "00" -> Some("Approved")
      [] s = "05" -> Some("DoNotHonor")
      [] s = "12" -> Some("InvalidTransaction")
      [] s = "13" -> Some("InvalidAmount")
      [] s = "14" -> Some("InvalidCard")
      [] s = "30" -> Some("FormatError")
      [] s = "51" -> Some("InsufficientFunds")
      [] s = "54" -> Some("ExpiredCard")
      [] s = "55" -> Some("IncorrectPin")
      [] s = "57" -> Some("NotPermitted")
      [] s = "58" -> Some("NotPermittedTerminal")
      [] s = "61" -> Some("ExceedsLimit")
      [] s = "91" -> Some("IssuerInoperative")
      [] s = "96" -> Some("SystemMalfunction")
      [] OTHER    -> None

\* ResponseCode::to_transaction_state, by variant
VariantToState(c) == IF c = "Approved" THEN "Approved" ELSE "Declined"

\* ResponseHandler::parse_response : (TransactionState, Option<ResponseCode>)
ParseResponsePair(response) ==
    IF GetField(response, 39) # None
           /\ VariantFromStr(GetField(response, 39)[1]) # None
    THEN LET code == VariantFromStr(GetField(response, 39)[1])[1] IN
         <<VariantToState(code), Some(code)>>
    ELSE <<"Failed", None>>

\* Iso8583Message::is_request
IsRequest(m) == m.mti \in {"0100", "0200", "0400", "0800"}

\* determine_response_code: Approved, or one of the five error codes
DeterminedCodes == {"00", "05", "51", "14", "54", "57"}

\* the DE39 values of the replies parse_response is given: every code of
\* the enumeration and strings outside it
De39Values ==
    ResponseCodes \cup {"", "0", "000", "99", "0O", "AP", " 00", "5"}

\* the replies parse_response is given, DE39 absent in some
Replies ==
    {SetField(SetField(NewMessage(mti), 37, GenerateRrn(1, 0, 7)), 39, code) :
        mti \in {"0210", "0410"}, code \in De39Values} \cup
    {SetField(SetField(SetField(NewMessage(mti), 37, GenerateRrn(1, 0, 7)),
                       38, Fmt6(123456)), 39, code) :
        mti \in {"0210", "0410"}, code \in De39Values} \cup
    {NewMessage("0210"), SetField(NewMessage("0210"), 38, Fmt6(123456))}

\* the messages process_request is given: requests and others, with and
\* without a STAN, some with an authorization code of their own
MockRequests ==
    LET base == {NewMessage(mti) :
                    mti \in {"0100", "0200", "0400", "0800", "0220", "0420",
                             "0210"}}
        withStan == base \cup {SetField(m, 11, Fmt6(n)) :
                                  m \in base, n \in {1, MaxStan}}
    IN  withStan \cup {SetField(m, 38, Fmt6(654321)) : m \in withStan}

\* the keywords a request carries as msgType and as transactionType
Keywords ==
    {"SALE", "PURCHASE", "CASH_WITHDRAWAL", "BALANCE_INQUIRY", "REFUND",
     "VOID", ""}

\* the requests build_iso_message is given
TypedRequests ==
    {[msg_type |-> m, transaction_type |-> t, trm_id |-> "T001",
      transaction_id |-> <<1>>, amount |-> 100] :
        m \in Keywords, t \in Keywords}

\* a stored row that a reply has completed
Answered(r) ==
    [r EXCEPT !.field_037 = Some("000000000001"), !.field_038 = Some("100000"),
              !.field_039 = Some("00"), !.tr_type = Some(AsStr("Approved")),
              !.updt_dtm = Some(FmtYMDHMS(1, 0))]

\* the rows of two keys of one day and one STAN, each as inserted or as
\* completed
StoredAt(t) ==
    {TestRow(<<1, 2, 3, 4, 5, 6>>, 1, t, Some(AsStr("Created"))),
     Answered(TestRow(<<1, 2, 3, 4, 5, 6>>, 1, t, Some(AsStr("Created"))))}

\* the tables of the update calls: at most one row under a key
StoredTables ==
    {a \cup b : a \in {{}} \cup {{r} : r \in StoredAt(0)},
                b \in {{}} \cup {{r} : r \in StoredAt(1)}}

\* the keys of the update calls: the two of the rows, and keys that differ
\* from them in the STAN only or in the day only
UpdateKeys ==
    {<<FmtYMD(1), FmtHMS(0), <<1, 2, 3, 4, 5, 6>>>>,
     <<FmtYMD(1), FmtHMS(1), <<1, 2, 3, 4, 5, 6>>>>,
     <<FmtYMD(1), FmtHMS(0), <<6, 5, 4, 3, 2, 1>>>>,
     <<FmtYMD(2), FmtHMS(0), <<1, 2, 3, 4, 5, 6>>>>}

\* the update calls: update_response with each argument absent or present,
\* the update to Sent of process_transaction, mark_as_reversed
UpdateCalls ==
    {[op |-> "call", fn |-> "update_response", table |-> tb, key |-> k,
      code |-> c, auth |-> a, rrn |-> n, state |-> st] :
        tb \in StoredTables, k \in UpdateKeys, c \in {None, Some("05")},
        a \in {None, Some("654321")}, n \in {None, Some("000000000002")},
        st \in {"Sent", "Approved", "Declined", "Reversed"}}
    \cup {[op |-> "call", fn |-> f, table |-> tb, key |-> k] :
             f \in {"update_sent", "mark_as_reversed"},
             tb \in StoredTables, k \in UpdateKeys}

\* the calls of the model: the function and its arguments
SvcCalls ==
    UpdateCalls \cup
    {[op |-> "call", fn |-> "build_response_json", request |-> r,
      response |-> rs] : r \in Requests, rs \in Replies} \cup
    {[op |-> "call", fn |-> "as_str", code |-> c] : c \in ResponseCodeNames}
    \cup {[op |-> "call", fn |-> "parse_response", response |-> r] :
             r \in Replies}
    \cup {[op |-> "call", fn |-> "process_request", request |-> r,
           code |-> c, rrn |-> n, auth |-> a] :
             r \in MockRequests, c \in DeterminedCodes,
             n \in {0, 999998}, a \in {100000}}
    \cup {[op |-> "call", fn |-> "build_iso_message", request |-> r] :
             r \in TypedRequests}

\* what no call of the responder or the builder touches
svcFrame == <<stanVars, txnVars, revVars, connVars, bitmapVars, msgVars,
              codecVars, tlvVars>>

\* as_str on a code, then from_str on the string
AsStrFromStr ==
    /\ svc.op = "call" /\ svc.fn = "as_str"
    /\ svc' = [op |-> "as_str", code |-> svc.code,
               str |-> VariantAsStr(svc.code),
               back |-> VariantFromStr(VariantAsStr(svc.code))]
    /\ UNCHANGED svcFrame

\* parse_response on a reply
ParseResponseCall ==
    /\ svc.op = "call" /\ svc.fn = "parse_response"
    /\ svc' = [op |-> "parse_response", response |-> svc.response,
               out |-> ParseResponsePair(svc.response)]
    /\ UNCHANGED svcFrame

\* process_request on a message, on day 1 at midnight
ProcessRequestCall ==
    /\ svc.op = "call" /\ svc.fn = "process_request"
    /\ svc' = [op |-> "process_request", request |-> svc.request,
               response |-> MockProcessRequest(svc.request, svc.code, 1, 0,
                                               svc.rrn, svc.auth)]
    /\ UNCHANGED svcFrame

\* build_iso_message on a request, with STAN 000001 on day 1 at midnight
BuildIsoMessageCall ==
    /\ svc.op = "call" /\ svc.fn = "build_iso_message"
    /\ svc' = [op |-> "build_iso_message", request |-> svc.request,
               out |-> BuildIsoMessage(svc.request, Fmt6(1), 1, 0)]
    /\ UNCHANGED svcFrame

\* update_response on a table, on day 1 at second 1
UpdateResponseCall ==
    /\ svc.op = "call" /\ svc.fn = "update_response"
    /\ svc' = [op |-> "update_response", table |-> svc.table, key |-> svc.key,
               code |-> svc.code, auth |-> svc.auth, rrn |-> svc.rrn,
               state |-> svc.state, now |-> FmtYMDHMS(1, 1),
               out |-> DbUpdateResponse(svc.table, svc.key[1], svc.key[2],
                                        svc.key[3], svc.code, svc.auth,
                                        svc.rrn, svc.state, FmtYMDHMS(1, 1))]
    /\ UNCHANGED svcFrame

\* the update to Sent of process_transaction, for the transaction of a key
UpdateSentCall ==
    /\ svc.op = "call" /\ svc.fn = "update_sent"
    /\ svc' = [op |-> "update_sent", table |-> svc.table, key |-> svc.key,
               now |-> FmtYMDHMS(1, 1),
               out |-> UpdateToSent(svc.table,
                                    [tr_dt |-> svc.key[1], tr_tm |-> svc.key[2],
                                     tr_uniq_no |-> svc.key[3]],
                                    FmtYMDHMS(1, 1))]
    /\ UNCHANGED svcFrame

\* the update of mark_as_reversed on a key
MarkAsReversedCall ==
    /\ svc.op = "call" /\ svc.fn = "mark_as_reversed"
    /\ svc' = [op |-> "mark_as_reversed", table |-> svc.table, key |-> svc.key,
               now |-> FmtYMDHMS(1, 1),
               out |-> UpdateToReversed(svc.table, svc.key, FmtYMDHMS(1, 1))]
    /\ UNCHANGED svcFrame

\* process_transaction from the reply on (lines 97-112): parse_response, then
\* build_response_json with the state of the pair, for STAN 000001
ReplyToJson ==
    /\ svc.op = "call" /\ svc.fn = "build_response_json"
    /\ svc' = [op |-> "build_response_json", request |-> svc.request,
               response |-> svc.response,
               out |-> BuildResponseJson(svc.request, svc.response, Fmt6(1),
                                         ParseResponsePair(svc.response)[1])]
    /\ UNCHANGED svcFrame

\* the arguments of one call are drawn
SvcInit ==
    /\ GenInit(0)
    /\ TxnIdle
    /\ RevIdle
    /\ ConnIdle
    /\ BitmapIdle
    /\ MsgIdle
    /\ CodecIdle
    /\ TlvIdle
    /\ svc \in SvcCalls

SvcNext ==
    \/ AsStrFromStr
    \/ ParseResponseCall
    \/ ProcessRequestCall
    \/ BuildIsoMessageCall
    \/ UpdateResponseCall
    \/ UpdateSentCall
    \/ MarkAsReversedCall
    \/ ReplyToJson

\* the responder and the builder on one call
SpecSvc == SvcInit /\ [][SvcNext]_vars

\* C32 (SpecSvc): parse_response returns (Approved, code 00) exactly when
\* DE39 is "00", (Declined, the code of that string) when DE39 is one of the
\* other thirteen codes, and (Failed, no code) when DE39 is absent or no code
\* of the enumeration; from_str(as_str(c)) is c for every code c.
C32_ParseResponseTable ==
    /\ svc.op = "parse_response" =>
           LET de39 == GetField(svc.response, 39) IN
           /\ svc.out = <<"Approved", Some("Approved")>> <=> de39 = Some("00")
           /\ (de39 # None /\ de39[1] \in ResponseCodes \ {"00"}) =>
                  /\ svc.out[1] = "Declined"
                  /\ svc.out[2] # None
                  /\ VariantAsStr(svc.out[2][1]) = de39[1]
           /\ (de39 = None \/ de39[1] \notin ResponseCodes) =>
                  svc.out = <<"Failed", None>>
    /\ svc.op = "as_str" => svc.back = Some(svc.code)

\* a reply with DE39 "51" has been parsed to Declined, InsufficientFunds
C32_Witness ==
    /\ svc.op = "parse_response"
    /\ GetField(svc.response, 39) = Some("51")
    /\ svc.out = <<"Declined", Some("InsufficientFunds")>>

\* C33 (SpecSvc): for every request message and every outcome drawn, the
\* reply of the mock responder has the MTI of the request with 10 added to
\* the third digit, carries DE11 of the request unchanged, has DE37 and DE39,
\* and has DE38 if and only if DE39 is "00".
C33_MockReplyShape ==
    (svc.op = "process_request" /\ IsRequest(svc.request)) =>
        /\ svc.response.mti =
               (CASE svc.request.mti = "0100" -> "0110"
                  [] svc.request.mti = "0200" -> "0210"
                  [] svc.request.mti = "0400" -> "0410"
                  [] svc.request.mti = "0800" -> "0810")
        /\ GetField(svc.response, 11) = GetField(svc.request, 11)
        /\ GetField(svc.response, 37) # None
        /\ GetField(svc.response, 39) # None
        /\ GetField(svc.response, 38) # None
               <=> GetField(svc.response, 39) = Some("00")

\* a 0400 request with a STAN and an authorization code of its own has got
\* a declined reply: 0410, the STAN, no DE38
C33_Witness ==
    /\ svc.op = "process_request"
    /\ svc.request.mti = "0400"
    /\ GetField(svc.request, 11) = Some(Fmt6(MaxStan))
    /\ GetField(svc.request, 38) # None
    /\ svc.response.mti = "0410"
    /\ GetField(svc.response, 39) = Some("54")
    /\ GetField(svc.response, 38) = None

\* C34 (SpecSvc): DE3 of the message build_iso_message makes is given by
\* the transactionType keyword of the request: 000000 for SALE and PURCHASE,
\* 010000 for CASH_WITHDRAWAL, 310000 for BALANCE_INQUIRY, 200000 for REFUND
\* and 000000 for any other, whatever the msgType.
C34_ProcessingCodeByTransactionType ==
    svc.op = "build_iso_message" =>
        GetField(svc.out, 3) =
            Some(CASE svc.request.transaction_type
                          \in {"SALE", "PURCHASE"}             -> "000000"
                   [] svc.request.transaction_type = "CASH_WITHDRAWAL" -> "010000"
                   [] svc.request.transaction_type = "BALANCE_INQUIRY" -> "310000"
                   [] svc.request.transaction_type = "REFUND"          -> "200000"
                   [] OTHER                                            -> "000000")


\* the columns an update may write
WrittenColumns == {"field_037", "field_038", "field_039", "tr_type", "updt_dtm"}

\* rows outside the key are the same before and after, and the key selects
\* as many rows after as before
OnlyTheKey(table, out, key) ==
    /\ \A r \in table : KeyOf(r) # key => r \in out
    /\ \A r \in out : KeyOf(r) # key => r \in table
    /\ Cardinality(RowsAt(out, key)) = Cardinality(RowsAt(table, key))

\* r2 is r but for the written columns
SameElsewhere(r, r2) ==
    /\ DOMAIN r2 = DOMAIN r
    /\ \A c \in DOMAIN r \ WrittenColumns : r2[c] = r[c]

\* every selected row has its image, related to it by Q(before, after)
Selected(table, out, key, Q(_, _)) ==
    \A r \in RowsAt(table, key) :
        \E r2 \in RowsAt(out, key) : SameElsewhere(r, r2) /\ Q(r, r2)

\* C35 (SpecSvc): update_response changes only the record its key selects,
\* always sets the state and the update time, and leaves each of the stored
\* response code, auth code and RRN as it was when the argument is absent;
\* the update to Sent alters no response field; mark_as_reversed sets state
\* Reversed and response code "99" and leaves auth code and RRN as they were.
C35_UpdateFrame ==
    /\ svc.op = "update_response" =>
           LET Q(r, r2) ==
                   /\ r2.tr_type = Some(AsStr(svc.state))
                   /\ r2.updt_dtm = Some(svc.now)
                   /\ svc.code = None => r2.field_039 = r.field_039
                   /\ svc.auth = None => r2.field_038 = r.field_038
                   /\ svc.rrn = None => r2.field_037 = r.field_037
           IN  /\ OnlyTheKey(svc.table, svc.out, svc.key)
               /\ Selected(svc.table, svc.out, svc.key, Q)
    /\ svc.op = "update_sent" =>
           LET Q(r, r2) ==
                   /\ r2.tr_type = Some("SENT")
                   /\ r2.field_039 = r.field_039
                   /\ r2.field_038 = r.field_038
                   /\ r2.field_037 = r.field_037
           IN  /\ OnlyTheKey(svc.table, svc.out, svc.key)
               /\ Selected(svc.table, svc.out, svc.key, Q)
    /\ svc.op = "mark_as_reversed" =>
           LET Q(r, r2) ==
                   /\ r2.tr_type = Some("REVERSED")
                   /\ r2.field_039 = Some("99")
                   /\ r2.field_038 = r.field_038
                   /\ r2.field_037 = r.field_037
           IN  /\ OnlyTheKey(svc.table, svc.out, svc.key)
               /\ Selected(svc.table, svc.out, svc.key, Q)

\* mark_as_reversed has rewritten a completed row next to another row
C35_Witness ==
    /\ svc.op = "mark_as_reversed"
    /\ Cardinality(svc.table) = 2
    /\ \E r \in RowsAt(svc.table, svc.key) : r.field_038 = Some("100000")
    /\ \E r2 \in RowsAt(svc.out, svc.key) :
           r2.field_039 = Some("99") /\ r2.field_038 = Some("100000")


\* C36 (SpecSvc): in every result of process_transaction the field status is
\* "APPROVED" if and only if transactionState is "APPROVED", which is so
\* exactly when DE39 of the reply is "00"; otherwise status is "DECLINED" and
\* the state is Declined or Failed.
C36_StatusMatchesState ==
    svc.op = "build_response_json" =>
        /\ svc.out.status = "APPROVED" <=> svc.out.transactionState = "APPROVED"
        /\ svc.out.status = "APPROVED" <=> GetField(svc.response, 39) = Some("00")
        /\ svc.out.status # "APPROVED" =>
               /\ svc.out.status = "DECLINED"
               /\ svc.out.transactionState \in {"DECLINED", "FAILED"}

\* a reply whose DE39 is no code of the enumeration has given a result
C36_Witness ==
    /\ svc.op = "build_response_json"
    /\ GetField(svc.response, 39) # None
    /\ svc.out.status = "DECLINED"
    /\ svc.out.transactionState = "FAILED"


\* C37 (SpecTxn): every transaction persisted with STAN s is stored with
\* tr_uniq_no equal to s, so that find_by_stan_today(s) on the day of the
\* transaction returns that record.
C37_StoredUnderStan ==
    \A t \in Tasks :
        Has(log[t], "insert") =>
            \E r \in RowsAt(db, KeyOf(dbtx[t])) :
                /\ r.field_011 = Some(stan[t])
                /\ r.tr_uniq_no = stan[t]
                /\ r.tr_dt = FmtYMD(today) =>
                       FindByStanToday(db, stan[t], today) = Some(r)


\* what tr_type holds once the reply has been stored
FinalTypes == {Some(AsStr(st)) : st \in {"Approved", "Declined", "Failed"}}

\* one step of the runs: a stored record in a final state is not Sent after
\* the step, and the rows an update of run t changes are rows of run t (its
\* key, and its STAN in field_011)
C38_Step ==
    /\ \A r \in db, r2 \in db' :
           (KeyOf(r2) = KeyOf(r) /\ r2.field_011 = r.field_011
               /\ r.tr_type \in FinalTypes) => r2.tr_type # Some(AsStr("Sent"))
    /\ \A t \in Tasks :
           (tpc[t] \in {"sent", "final"} /\ tpc'[t] # tpc[t]) =>
               \A r \in db \ db' :
                   KeyOf(r) = KeyOf(dbtx[t]) /\ r.field_011 = Some(stan[t])

BitmapBytesRead(data) ==
    IF BitOfByte(Slice(data, 4, 12)[1], 7) THEN 16 ELSE 8

\* the bytes of a built message after the MTI and the bitmap
PayloadOf(out) ==
    LET bytes == HexDecode(out.hex).bytes
        head  == 4 + Len(HexDecode(out.message.bitmap).bytes)
    IN  SubSeq(bytes, head + 1, Len(bytes))

\* C39 (SpecCodec): for every message build serializes, one on which
\* set_field(1, v) was called included, parse reads as many bitmap bytes (8 or
\* 16) as build wrote, and DE 1 is neither stored as a field nor emitted in
\* the payload.
C39_BitmapLengthAgrees ==
    (codec.op = "build" /\ codec.out.ok) =>
        /\ BitmapBytesRead(HexDecode(codec.out.hex).bytes)
               = Len(HexDecode(codec.out.message.bitmap).bytes)
        /\ 1 \notin DOMAIN codec.out.message.fields
        /\ PayloadOf(codec.out) = PayloadOf(Build(RemoveField(codec.message, 1)))
        /\ codec.back.kind = "Ok" => 1 \notin DOMAIN codec.back.message[1].fields


\* C40 (SpecTlv): on every finite input the TLV parser terminates: each pass
\* of its loop ends with the cursor strictly beyond where the pass began, the
\* cursor never exceeds the input length, every value slice lies within the
\* input, and so there are no more passes than input bytes.
C40_CursorAdvances ==
    tlv.op = "parse_to_vec" =>
        LET n == Len(HexToBytes(tlv.input).bytes)
            passes == tlv.res.passes
        IN  /\ Len(passes) <= n
            /\ \A i \in DOMAIN passes :
                   /\ passes[i].pos < passes[i].cursor
                   /\ passes[i].cursor <= n
                   /\ 0 <= passes[i].lo
                   /\ passes[i].lo <= passes[i].hi
                   /\ passes[i].hi <= n
                   /\ i > 1 => passes[i].pos = passes[i - 1].cursor

\* a parse of several passes whose last value was cut short by the end of
\* the input
C40_Witness ==
    /\ tlv.op = "parse_to_vec"
    /\ tlv.input \in OverlongStreams
    /\ Len(tlv.res.passes) = MaxTlvElems
    /\ tlv.res.passes[MaxTlvElems].hi = Len(HexToBytes(tlv.input).bytes)
    /\ tlv.res.passes[MaxTlvElems].lo < tlv.res.passes[MaxTlvElems].hi

=============================================================================
